---- MODULE Spec2Model ----
(***************************************************************************)
(* Browser-side controller of the OP-Z / OP-1 sample manager.              *)
(*                                                                         *)
(* Two scripts define the slot-based (OP-Z) page: static/js/samplemanager.js *)
(* (the older page) and static/js/configeditor.js (the combined page).     *)
(* Both declare fetchOpzSamples and pollForMount, so a page loads one of    *)
(* them; the variable `page` says which, and is fixed by Init.             *)
(*                                                                         *)
(* JavaScript runs one handler at a time: the code between two awaits is    *)
(* one atomic action.  An async handler that is suspended at an await is a  *)
(* record in the bag `tasks`; the answers of the backend resume the         *)
(* suspended handlers in any order.                                         *)
(***************************************************************************)
EXTENDS Integers, Sequences, FiniteSets, Bags, TLC

-----------------------------------------------------------------------------
(* Bounds of the model *)

\* async handlers that may be suspended at the same time
MaxTasks == 2
\* native files carried by one drop event
MaxFiles == 2
\* largest `retries` argument given to pollForMount
MaxRetries == 4
\* subdirectories of one OP-1 section in a body of /read-op1-samples
MaxFolders == 3
\* largest storage size (KB) given to updateStorageDisplay, besides the sizes of DisplayInputs
MaxTotal == 20
\* `drop` listeners that the renders may pile up on one OP-1 section element
MaxListeners == 2
\* mutating requests that the backend applies in one behaviour
MaxVersion == 2

-----------------------------------------------------------------------------
(* JavaScript values *)

\* A value of which only the type and, for a string, the characters matter.
Str(chars) == [t |-> "string", s |-> chars]
Undefined == [t |-> "undefined", s |-> <<>>]
Null == [t |-> "object", s |-> <<>>]

\* typeof v === "string"
IsString(v) == v.t = "string"
\* the truthiness of a string, undefined or null
Truthy(v) == IsString(v) /\ Len(v.s) > 0
\* v.startsWith(c) for a one-character c
StartsWith(v, c) == Len(v.s) >= 1 /\ v.s[1] = c

EmptyLabel == Str(<<"(", "e", "m", "p", "t", "y", ")">>)
KickWav == Str(<<"k", "i", "c", "k", ".", "w", "a", "v">>)
SnareWav == Str(<<"s", "n", "a", "r", "e", ".", "w", "a", "v">>)
TmpWav == Str(<<"~", "t", "m", "p", ".", "w", "a", "v">>)
EmptyStr == Str(<<>>)

(* A Slot of the snapshot: {path, filename, filesize}.  The code only tests *)
(* path and filesize for truthiness, so a missing or null path is "" and a  *)
(* missing filesize is 0.                                                   *)
Slot(fn, p, sz) == [filename |-> fn, path |-> p, filesize |-> sz]
Kick == Slot(KickWav, "opz/kick.wav", 2048)
Snare == Slot(SnareWav, "opz/snare.wav", 1024)
Tmp == Slot(TmpWav, "opz/~tmp.wav", 512)
NoFile == Slot(Undefined, "", 0)
NullName == Slot(Null, "", 0)
Placeholder == Slot(EmptyLabel, "", 0)
EmptyName == Slot(EmptyStr, "opz/noname", 256)

-----------------------------------------------------------------------------
(* The page and the backend's answers *)

\* ids of the category containers (.samplepackbox elements) of the page
Containers == {"c1", "c2"}

Storage(u, t) == [present |-> TRUE, used |-> u, total |-> t]
NoStorage == [present |-> FALSE, used |-> 0, total |-> 0]

\* The body of GET /read-samples.
Snapshot(err, st, cats, data) ==
    [validation_error |-> err, storage |-> st, categories |-> cats, sampleData |-> data]

SnapA == Snapshot(FALSE, Storage(3, 32000), <<"c1", "c2">>,
                  << <<Kick, NoFile>>, <<Snare>> >>)
SnapB == Snapshot(FALSE, Storage(2, 32000), <<"c1", "c2">>,
                  << <<NoFile, Kick>>, <<NoFile>> >>)
\* every kind of filename
SnapNames == Snapshot(FALSE, Storage(4, 32000), <<"c1", "c2">>,
                      << <<Tmp, Placeholder, Snare>>, <<EmptyName, NullName>> >>)
\* a category the page has no container for
SnapNoContainer == Snapshot(FALSE, Storage(3, 32000), <<"cx", "c1">>,
                            << <<Snare>>, <<Kick, NullName>> >>)
SnapNoSlots == Snapshot(FALSE, Storage(0, 32000), <<>>, <<>>)
SnapNoStorage == Snapshot(FALSE, NoStorage, <<"c1">>, << <<Kick>> >>)
\* sampleData shorter than categories
SnapShort == Snapshot(FALSE, Storage(2, 32000), <<"c1", "c2">>, << <<Kick>> >>)
SnapInvalid == Snapshot(TRUE, NoStorage, <<>>, <<>>)

\* the bodies the backend answers with while the user works on two device states
GesturePool == {SnapA, SnapB}
\* bodies of every shape
RenderPool == {SnapA, SnapNames, SnapNoContainer, SnapNoSlots, SnapNoStorage, SnapShort, SnapInvalid}

\* How a request ends: a 2xx answer, a non-2xx answer, or fetch() rejecting.
Outcomes == {"ok", "non2xx", "transport"}
\* How a mutating request ends: "non2xx" is a non-2xx answer whose body has no
\* `error` field, "error" one whose body has it.
CallOutcomes == Outcomes \cup {"error"}

-----------------------------------------------------------------------------
(* Program constants *)

\* samplemanager.js: let TOTAL_STORAGE = 32000 (KB)
TOTAL_STORAGE == 32000
\* samplemanager.js: let MAX_SAMPLES = 40
MAX_SAMPLES == 40
\* configeditor.js: let OPZ_TOTAL_STORAGE = 24000 (KB), its value before the first render
OPZ_TOTAL_STORAGE_INITIAL == 24000

-----------------------------------------------------------------------------
(* State *)

VARIABLES
    page,               \* "samplemanager" or "configeditor": the script the page loaded
    pool,               \* the bodies GET /read-samples may answer with
    view,               \* view[c]: the slot elements of category container c, in order
    currentDevice,      \* configeditor.js: let currentDevice; the device view that is visible
    panel,              \* configeditor: error: #validation-error-container is shown;
                        \* opzHidden, op1Hidden: the device's storage info and file list are hidden
                        \* opzContainerHidden, op1ContainerHidden: `hidden` of the
                        \* elements opz-container and op1-container; activeTab: the
                        \* tab with class 'active'; errorOf: the device whose
                        \* validation_error is the text of
                        \* #validation-error-message; hover: the drop targets with
                        \* class 'drag-hover' 
    op1Data,            \* configeditor.js: let op1Data
    op1View,            \* the rendered OP-1 sections and the texts of the OP-1 storage display
    display,            \* the texts written by updateStorageDisplay
    numSamples,         \* samplemanager.js: let numSamples
    storageUsed,        \* samplemanager.js: let storageUsed, in 1/1024 KB (bytes)
    opzNumSamples,      \* configeditor.js: let opzNumSamples
    opzStorageUsed,     \* configeditor.js: let opzStorageUsed (KB)
    OPZ_TOTAL_STORAGE,  \* configeditor.js: let OPZ_TOTAL_STORAGE (KB)
    dataTransfer,       \* the payload of the drag in progress
    tasks,              \* the bag of handler runs that are suspended at an await
    last,               \* history: what the latest step did
    rendered,           \* history: the snapshot of the latest render, how that render ended,
                        \* and how often it called updateStorageDisplay
    poll,               \* the run of pollForMount
    backend             \* the backend: version, the mutating requests it has applied;
                        \* selected, its configuration value SELECTED_DEVICE

vars == <<page, pool, currentDevice, view, panel, op1Data, op1View, display, numSamples, storageUsed, opzNumSamples,
          opzStorageUsed, OPZ_TOTAL_STORAGE, dataTransfer, tasks, last, rendered, poll, backend>>

\* what no handler of the sample views writes: what Init fixes, and the backend
fixed == <<page, pool, currentDevice, backend>>

\* the variables a render of the OP-Z view writes
dom == <<view, panel, display, numSamples, storageUsed, opzNumSamples,
         opzStorageUsed, OPZ_TOTAL_STORAGE>>

\* the variables a render of the OP-Z view writes, but for the panel
domRest == <<view, display, numSamples, storageUsed, opzNumSamples,
             opzStorageUsed, OPZ_TOTAL_STORAGE>>

\* The elements that take the class 'drag-hover': a slot element (its category and
\* index), an OP-1 folder element (its section and position), an OP-1 section.
HoverSlot(category, slotIndex) == [kind |-> "slot", at |-> category, index |-> slotIndex]
HoverSubdir(section, j) == [kind |-> "subdir", at |-> section, index |-> j]
HoverSection(section) == [kind |-> "section", at |-> section, index |-> 0]
NoHover == [kind |-> "", at |-> "", index |-> 0]

\* el.classList.remove('drag-hover') at the head of a drop handler
Unhover(target) == panel' = [panel EXCEPT !.hover = @ \ {target}]

-----------------------------------------------------------------------------
(* Rendering a snapshot: the body of fetchOpzSamples after the answer is parsed *)

\* The test of `if (typeof slot.filename === "string" && ...)` that counts a slot.
Counted(slot) ==
    /\ IsString(slot.filename)
    /\ slot.filename # EmptyLabel
    /\ ~StartsWith(slot.filename, "~")

\* const filename = slot.filename || "(empty)"
DisplayName(slot) == IF Truthy(slot.filename) THEN slot.filename ELSE EmptyLabel

\* The slot element: dataset.category, dataset.slot, the text span
\* `Slot ${slotIndex + 1}: ${filename}${filesize}`, and the slot object its
\* handlers close over (of which they read path).
Element(category, slotIndex, slot) ==
    [category |-> category, slot |-> slotIndex, label |-> DisplayName(slot),
     size |-> slot.filesize, path |-> slot.path]

\* What a render works on: the DOM, the counters, whether it threw, the
\* containers whose children it replaced, and how often it has called
\* updateStorageDisplay.
RenderState ==
    [view |-> view, panel |-> panel, disp |-> display,
     num |-> IF page = "configeditor" THEN opzNumSamples ELSE numSamples,
     used |-> IF page = "configeditor" THEN opzStorageUsed ELSE storageUsed,
     total |-> OPZ_TOTAL_STORAGE, threw |-> FALSE, cleared |-> {}, updates |-> 0]

Abs(x) == IF x < 0 THEN 0 - x ELSE x

(* A JavaScript number as `percent` and `percentNum` hold it: a decimal with *)
(* one fractional digit (in tenths), Infinity, -Infinity or NaN.             *)
Num(tenths) == [kind |-> "num", tenths |-> tenths]
Infinity == [kind |-> "inf", tenths |-> 0]
NegInfinity == [kind |-> "-inf", tenths |-> 0]
NaN == [kind |-> "nan", tenths |-> 0]

(* parseFloat(((used / total) * 100).toFixed(1)): the values it may have.    *)
(* toFixed(1) rounds the double to the nearest tenth, the magnitude of a     *)
(* negative one.  When used/total*100 lies exactly halfway between two       *)
(* tenths, the double computed for it lies at or on either side of the       *)
(* halfway point, so both neighbours are possible.  Division by zero gives   *)
(* Infinity, -Infinity, or NaN for 0/0, which toFixed and parseFloat keep.   *)
percentNum(used, total) ==
    IF total = 0
    THEN {IF used = 0 THEN NaN ELSE IF used > 0 THEN Infinity ELSE NegInfinity}
    ELSE LET q == (Abs(used) * 1000) \div Abs(total)
             r == (Abs(used) * 1000) % Abs(total)
             sign == IF (used < 0) # (total < 0) THEN 0 - 1 ELSE 1
             m == IF 2 * r < Abs(total) THEN {q}
                  ELSE IF 2 * r > Abs(total) THEN {q + 1}
                  ELSE {q, q + 1}
         IN  {Num(sign * t) : t \in m}

\* x >= y for a JavaScript number x and a decimal y given in tenths
GreaterOrEqual(x, tenths) == x.kind = "inf" \/ (x.kind = "num" /\ x.tenths >= tenths)
\* x > y
Greater(x, tenths) == x.kind = "inf" \/ (x.kind = "num" /\ x.tenths > tenths)

\* a colour choice that puts the thresholds themselves in the lower class
colorClass_Strict(p) ==
    IF Greater(p, 850) THEN "storage-high"
    ELSE IF Greater(p, 600) THEN "storage-medium"
    ELSE "storage-low"

\* let colorClass = 'storage-low'; if (percentNum >= 85) ... else if (percentNum >= 60) ...
colorClass(p) ==
    IF GreaterOrEqual(p, 850) THEN "storage-high"
    ELSE IF GreaterOrEqual(p, 600) THEN "storage-medium"
    ELSE "storage-low"

StorageClasses == {"storage-low", "storage-medium", "storage-high"}

\* classList.remove('storage-low', 'storage-medium', 'storage-high'); classList.add(c)
\* on an element that had the classes `old`
SetColorClass(old, c) == (old \ StorageClasses) \cup {c}

(* The storage bar after updateStorageDisplay: the percent in its width and  *)
(* label, and which of the three classes the fill then has.  A set: one bar  *)
(* for each value percentNum may have.                                       *)
StorageBar(used, total) ==
    {[percent |-> p, classes |-> SetColorClass(StorageClasses, colorClass(p))] :
        p \in percentNum(used, total)}

\* configeditor.js updateStorageDisplay('opz', storage, {numSamples})
CE_updateStorageDisplay(storage, n) ==
    [samplesUsed |-> n, storageUsed |-> storage.used, storageFree |-> storage.total - storage.used,
     bar |-> StorageBar(storage.used, storage.total)]

\* samplemanager.js updateStorageDisplay(), reading the globals; its page has no bar
SM_updateStorageDisplay(used, n) ==
    [samplesUsed |-> n, storageUsed |-> used, storageFree |-> TOTAL_STORAGE * 1024 - used,
     bar |-> {}]

\* configeditor.js: one turn of data.sampleData[catIndex].forEach
CE_renderSlot(data, category, slotIndex, slot, st) ==
    LET n == IF Counted(slot) THEN st.num + 1 ELSE st.num
        counted == [st EXCEPT !.num = n, !.updates = @ + 1]
    IN  IF ~data.storage.present
        THEN \* updateStorageDisplay reads storage.used of undefined: TypeError
             [counted EXCEPT !.threw = TRUE]
        ELSE [counted EXCEPT !.disp = CE_updateStorageDisplay(data.storage, n),
                             !.view[category] = Append(@, Element(category, slotIndex, slot))]

\* samplemanager.js: one turn of data.sampleData[catIndex].forEach
SM_renderSlot(data, category, slotIndex, slot, st) ==
    LET n == IF Counted(slot) THEN st.num + 1 ELSE st.num
        u == IF slot.filesize # 0 THEN st.used + slot.filesize ELSE st.used
    IN  [st EXCEPT !.num = n, !.used = u, !.disp = SM_updateStorageDisplay(u, n),
                   !.updates = @ + 1,
                   !.view[category] = Append(@, Element(category, slotIndex, slot))]

RECURSIVE renderSlots(_, _, _, _, _, _)
renderSlots(pg, data, category, slots, k, st) ==
    IF k > Len(slots) \/ st.threw THEN st
    ELSE renderSlots(pg, data, category, slots, k + 1,
                     IF pg = "configeditor"
                     THEN CE_renderSlot(data, category, k - 1, slots[k], st)
                     ELSE SM_renderSlot(data, category, k - 1, slots[k], st))

\* a render that appends the slots to what the container holds
ClearAndFill_Append(pg, data, catIndex, st) ==
    LET category == data.categories[catIndex]
    IN  IF catIndex > Len(data.sampleData)
        THEN [st EXCEPT !.threw = TRUE]
        ELSE renderSlots(pg, data, category, data.sampleData[catIndex], 1,
                         [st EXCEPT !.cleared = @ \cup {category}])

\* container.innerHTML = "" (the heading is put back), then the slots
ClearAndFill(pg, data, catIndex, st) ==
    LET category == data.categories[catIndex]
        emptied == [st EXCEPT !.view[category] = <<>>, !.cleared = @ \cup {category},
                              !.panel.hover = {h \in @ : ~(h.kind = "slot" /\ h.at = category)}]
    IN  IF catIndex > Len(data.sampleData)
        THEN \* data.sampleData[catIndex] is undefined: TypeError on .forEach
             [emptied EXCEPT !.threw = TRUE]
        ELSE renderSlots(pg, data, category, data.sampleData[catIndex], 1, emptied)

\* configeditor.js: one turn of data.categories.forEach
CE_renderCategory(data, catIndex, st) ==
    IF data.categories[catIndex] \notin Containers
    THEN st     \* if (!container) return;
    ELSE ClearAndFill("configeditor", data, catIndex, st)

\* samplemanager.js: one turn of data.categories.forEach
SM_renderCategory(data, catIndex, st) ==
    IF data.categories[catIndex] \notin Containers
    THEN [st EXCEPT !.threw = TRUE]     \* container is null: TypeError on .querySelector
    ELSE ClearAndFill("samplemanager", data, catIndex, st)

RECURSIVE renderCategories(_, _, _, _)
renderCategories(pg, data, catIndex, st) ==
    IF catIndex > Len(data.categories) \/ st.threw THEN st
    ELSE renderCategories(pg, data, catIndex + 1,
                          IF pg = "configeditor"
                          THEN CE_renderCategory(data, catIndex, st)
                          ELSE SM_renderCategory(data, catIndex, st))

\* a fetchOpzSamples that zeroes its counters before it looks at validation_error
CE_render_ResetFirst(data, st) ==
    IF data.validation_error
    THEN [st EXCEPT !.panel.error = TRUE, !.panel.errorOf = "opz",
                    !.panel.opzHidden = TRUE, !.used = 0, !.num = 0]
    ELSE renderCategories("configeditor", data, 1,
                          [st EXCEPT !.panel.error = FALSE, !.panel.opzHidden = FALSE,
                                     !.used = 0, !.num = 0])

\* configeditor.js fetchOpzSamples, from `const errorContainer` to the end of the try
CE_render(data, st) ==
    IF data.validation_error
    THEN [st EXCEPT !.panel.error = TRUE, !.panel.errorOf = "opz",
                    !.panel.opzHidden = TRUE]
    ELSE LET shown == [st EXCEPT !.panel.error = FALSE, !.panel.opzHidden = FALSE]
             reset == IF data.storage.present
                      THEN [shown EXCEPT !.used = data.storage.used,
                                         !.total = data.storage.total, !.num = 0]
                      ELSE [shown EXCEPT !.used = 0, !.num = 0]
         IN  renderCategories("configeditor", data, 1, reset)

\* samplemanager.js fetchOpzSamples, from `storageUsed = 0` to the end of the try
SM_render(data, st) ==
    renderCategories("samplemanager", data, 1, [st EXCEPT !.used = 0, !.num = 0])

\* a render that drops a body older than the one on the page (told by storage.used,
\* which grows with every request the backend of SpecStale applies)
render_SkipStale(data, st) ==
    IF data.storage.present /\ data.storage.used < st.used THEN st
    ELSE IF page = "configeditor" THEN CE_render(data, st) ELSE SM_render(data, st)

render(data, st) == IF page = "configeditor" THEN CE_render(data, st) ELSE SM_render(data, st)

\* how a render of `data` that produced `st` ended
RenderStatus(data, st) ==
    IF st.threw THEN "threw"
    ELSE IF page = "configeditor" /\ data.validation_error THEN "invalid"
    ELSE "complete"

-----------------------------------------------------------------------------
(* Handler runs *)

\* e.dataTransfer.getData("text/plain") of a drag: nothing, or the JSON that
\* dragstart stored.  JSON drops an undefined path; "" stands for a path
\* that is missing, null or empty (the handlers only test !path).
NoText == [has |-> FALSE, category |-> "", slot |-> 0, path |-> ""]
Payload(category, slotIndex, path) ==
    [has |-> TRUE, category |-> category, slot |-> slotIndex, path |-> path]
NoDrag == [files |-> 0, text |-> NoText]

(* One run of an async event handler (or of a start-up call).                *)
(*   kind       "load", "drop" or "delete"                                   *)
(*   op         the mutating request it issued last, "" when none            *)
(*   pc         "call": awaiting that request; "refresh": awaiting the GET   *)
(*              of the device's fetch; "done": returned                      *)
(*   dev        the device whose fetch the run awaits at pc = "refresh"      *)
(*   category, slot   of a delete handler of samplemanager.js: the slot     *)
(*              element it closes over and writes to after its await;        *)
(*              attached: that element is still in the document              *)
(*   calls, refreshes, alerts   mutating requests issued, calls of the       *)
(*              device's fetch, alert() calls, by this run                   *)
(*   result     how the mutating request ended, "" while it has not          *)
(*   handled    the backend has handled the mutating request it awaits       *)
(*   seen       the backend version in the answer to the GET it awaits,      *)
(*              NotSeen while the backend has not read it (or is not         *)
(*              followed)                                                    *)
(*   files      of an OP-1 drop handler: the files it has still to upload    *)
(*              after the request it awaits; while it awaits                 *)
(*              getFilesFromDirectory, the files that will resolve to        *)
(*   said       the text of its alert: "generic", the handler's own wording  *)
(*              (with the exception's message, if it shows one); "body",     *)
(*              the `error` text of the response body                        *)
(*   answers    the save-all handler: how each of its requests ended          *)
NotSeen == 0 - 1
NewTask(kind, dev) ==
    [kind |-> kind, op |-> "", pc |-> "done", dev |-> dev, category |-> "", slot |-> 0,
     attached |-> TRUE, calls |-> 0, refreshes |-> 0, alerts |-> 0, result |-> "", said |-> "",
     files |-> 0, handled |-> FALSE, seen |-> NotSeen, answers |-> <<>>]

\* a handler that starts the device's fetch together with its request
Calling_AndRefresh(t, op) ==
    [t EXCEPT !.op = op, !.pc = "call", !.calls = @ + 1, !.refreshes = @ + 1]

\* the run calls fetch(op, ...) and is suspended on it
Calling(t, op) == [t EXCEPT !.op = op, !.pc = "call", !.calls = @ + 1]

\* the run calls fetchOpzSamples() / fetchOp1Samples() and is suspended on its GET
Refreshing(t) == [t EXCEPT !.pc = "refresh", !.refreshes = @ + 1]

\* the run calls alert("...") with a fixed text in its catch and returns
Alerted(t) == [t EXCEPT !.pc = "done", !.alerts = @ + 1, !.said = "generic"]

\* the run threw new Error(data.error || '...') on a response that is not ok, or
\* fetch threw; its catch calls alert(`...: ${err.message}`) and returns
AlertedMessage(t, o) ==
    [t EXCEPT !.pc = "done", !.alerts = @ + 1,
              !.said = IF o = "error" THEN "body" ELSE "generic"]

NoTarget == [category |-> "", slot |-> 0]
Target(category, slotIndex) == [category |-> category, slot |-> slotIndex]

(* What the latest step did (history, for stating the properties).           *)
(*   started    an event handler was entered; gesture says which, category   *)
(*              and slot the element, files .. same what the drop carried:    *)
(*              the number of native files, whether it had text, whether the  *)
(*              text had a path, whether its (category, slot) is the target's *)
(*   asked, confirmed   confirm() was shown, and its answer                  *)
(*   moves, uploads, deletes   requests the handlers of the event issued     *)
(*   to         the category and slot the request names                      *)
(*   returned   a handler run returned;  rendered   a snapshot was rendered   *)
(*   answer     what prompt() returned                                       *)
(*   over       the element a dragover or dragleave event was dispatched to;  *)
(*   inside     whether that element contains the event's relatedTarget       *)
(*   again      the render was of the body of the render before it, and both  *)
(*              ran to their end                                              *)
(*   task       the run, as the step left it                                 *)
(*   folder     the name of the OP-1 folder element the event was on         *)
NoEvent ==
    [started |-> FALSE, returned |-> FALSE, rendered |-> FALSE, gesture |-> "",
     category |-> "", slot |-> 0, files |-> 0, hasText |-> FALSE, hasPath |-> FALSE,
     same |-> FALSE, asked |-> FALSE, confirmed |-> FALSE,
     moves |-> 0, uploads |-> 0, deletes |-> 0, to |-> NoTarget, task |-> NewTask("", ""),
     folder |-> "", answer |-> "", again |-> FALSE, over |-> NoHover, inside |-> FALSE]

Entered(gesture, category, slotIndex, t) ==
    [NoEvent EXCEPT !.started = TRUE, !.returned = (t.pc = "done"), !.gesture = gesture,
                    !.category = category, !.slot = slotIndex, !.task = t]

Returned(t) == [NoEvent EXCEPT !.returned = (t.pc = "done"), !.task = t]

\* A handler was entered and left run t: suspended, or already returned.
Start(t) ==
    IF t.pc = "done" THEN tasks' = tasks
    ELSE BagCardinality(tasks) < MaxTasks /\ tasks' = tasks (+) SetToBag({t})

\* Run t took a step to u: it is still suspended, or it returned.
Resume(ts, t, u) ==
    IF u.pc = "done"
    THEN ts (-) SetToBag({t})
    ELSE (ts (-) SetToBag({t})) (+) SetToBag({u})

\* the OP-Z elements can be pointed at
OpzVisible == currentDevice = "opz" /\ ~panel.opzHidden

-----------------------------------------------------------------------------
(* fetchOpzSamples *)

\* What GET /read-samples and response.json() can end as.
FetchOutcomes == Outcomes \cup {"badbody"}

\* A render replaced the children of `cleared`: the elements that the
\* suspended delete handlers close over are no longer in the document.
DetachOne(t, cleared) ==
    IF t.kind = "delete" /\ t.dev = "opz" /\ t.category \in cleared
    THEN [t EXCEPT !.attached = FALSE] ELSE t

Detach(ts, cleared) ==
    LET after == {DetachOne(t, cleared) : t \in BagToSet(ts)}
        attachedTwin(u) == [u EXCEPT !.attached = TRUE]
    IN  [u \in after |->
            IF DetachOne(attachedTwin(u), cleared) = u /\ attachedTwin(u) # u
            THEN CopiesIn(u, ts) + CopiesIn(attachedTwin(u), ts)
            ELSE CopiesIn(u, ts)]

\* the assignments of a render to the page's variables
Commit(data, st) ==
    /\ view' = st.view
    /\ panel' = st.panel
    /\ display' = st.disp
    /\ rendered' = [data |-> data, status |-> RenderStatus(data, st),
                    updates |-> st.updates]
    /\ IF page = "configeditor"
       THEN /\ opzNumSamples' = st.num
            /\ opzStorageUsed' = st.used
            /\ OPZ_TOTAL_STORAGE' = st.total
            /\ UNCHANGED <<numSamples, storageUsed>>
       ELSE /\ numSamples' = st.num
            /\ storageUsed' = st.used
            /\ UNCHANGED <<opzNumSamples, opzStorageUsed, OPZ_TOTAL_STORAGE>>

\* a switchDevice that returns after the device's fetch without saving the selection
AfterFetch_NoSave(t) == [t EXCEPT !.pc = "done"]

\* The run awaited the device's fetch, which has returned: switchDevice goes on to
\* save the selection; every other caller returns.
AfterFetch(t) ==
    IF t.kind = "switch"
    THEN [t EXCEPT !.op = "/set-config-setting", !.pc = "save", !.calls = @ + 1]
    ELSE [t EXCEPT !.pc = "done"]

\* The body of /read-samples when the backend has applied v mutating requests: one
\* category whose first v slots hold a sample.
BackendBody(v) ==
    Snapshot(FALSE, Storage(v, 32000), <<"c1">>,
             << [i \in 1..MaxVersion |-> IF i <= v THEN Kick ELSE NoFile] >>)

\* the bodies that may answer the GET of run t: what the backend read for it, or,
\* where the backend is not followed, any body of the pool
Answers(t) == IF t.seen = NotSeen THEN pool.opz ELSE {BackendBody(t.seen)}

\* the backend handles the mutating request of run t, and applies it or not
BackendHandles(t) ==
    /\ t \in BagToSet(tasks)
    /\ t.pc = "call" /\ ~t.handled
    /\ tasks' = Resume(tasks, t, [t EXCEPT !.handled = TRUE])
    /\ \E applied \in BOOLEAN :
        IF applied
        THEN /\ backend.version < MaxVersion
             /\ backend' = [backend EXCEPT !.version = @ + 1]
        ELSE UNCHANGED backend
    /\ last' = NoEvent
    /\ UNCHANGED <<page, pool, currentDevice, op1Data, op1View, dom, dataTransfer, rendered,
                   poll>>

\* the backend reads its state for the GET /read-samples of run t
BackendReads(t) ==
    /\ t \in BagToSet(tasks)
    /\ t.pc = "refresh" /\ t.dev = "opz" /\ t.seen = NotSeen
    /\ tasks' = Resume(tasks, t, [t EXCEPT !.seen = backend.version])
    /\ last' = NoEvent
    /\ UNCHANGED <<fixed, op1Data, op1View, dom, dataTransfer, rendered, poll>>

\* fetchOpzSamples resumes: the GET failed (caught and logged), or its body is
\* rendered; then the handler that awaited it returns.
RefreshResponse(t) ==
    /\ t \in BagToSet(tasks)
    /\ t.pc = "refresh" /\ t.dev = "opz"
    /\ LET u == AfterFetch(t)
       IN  \E o \in FetchOutcomes :
            IF o # "ok"
            THEN /\ tasks' = Resume(tasks, t, u)
                 /\ last' = Returned(u)
                 /\ UNCHANGED <<dom, rendered>>
            ELSE \E data \in Answers(t) :
                    LET st == render(data, RenderState)
                    IN  /\ Commit(data, st)
                        /\ tasks' = Detach(Resume(tasks, t, u), st.cleared)
                        /\ last' = [Returned(u) EXCEPT
                                        !.rendered = TRUE,
                                        !.again = /\ rendered.status = "complete"
                                                  /\ rendered.data = data
                                                  /\ RenderStatus(data, st) = "complete"]
    /\ UNCHANGED <<fixed, op1Data, op1View, dataTransfer, poll>>

\* Some handler calls fetchOpzSamples(): switchDevice('opz') of configeditor.js,
\* or a handler of either script after its request succeeded.
Refetch ==
    /\ Start(Refreshing(NewTask("load", "opz")))
    /\ last' = NoEvent
    /\ UNCHANGED <<fixed, op1Data, op1View, dom, dataTransfer, rendered, poll>>

-----------------------------------------------------------------------------
(* Drag and drop on the OP-Z slots *)

\* slotDiv "dragstart": stash {category, slot, path}
DragStart(c, i) ==
    /\ OpzVisible
    /\ c \in Containers /\ i \in DOMAIN view[c]
    /\ dataTransfer' = [files |-> 0,
                        text |-> Payload(view[c][i].category, view[c][i].slot, view[c][i].path)]
    /\ last' = NoEvent
    /\ UNCHANGED <<fixed, op1Data, op1View, dom, tasks, rendered, poll>>

\* What a drop event may carry: the drag in progress, or native files dragged
\* in from outside (one, or as many as MaxFiles), alone or together with the
\* text of the drag in progress.
DropPayloads ==
    {dataTransfer} \cup
    {[files |-> n, text |-> x] : n \in {1, MaxFiles}, x \in {NoText, dataTransfer.text}}

\* Faulty variant: the handler without its test of source against target.
SlotDropDecision_NoIdentityCheck(dt, category, slotIndex) ==
    IF dt.files > 0 THEN "files"
    ELSE IF ~dt.text.has THEN "nodata"
    ELSE IF dt.text.path = "" THEN "same"
    ELSE "move"

\* Faulty variant: the handler without its early return on native files.
SlotDropDecision_IgnoreFiles(dt, category, slotIndex) ==
    IF ~dt.text.has THEN "nodata"
    ELSE IF dt.text.path = ""
            \/ (dt.text.category = category /\ dt.text.slot = slotIndex) THEN "same"
    ELSE "move"

\* Faulty variant: the handler without its test of the payload's path.
SlotDropDecision_NoPathCheck(dt, category, slotIndex) ==
    IF dt.files > 0 THEN "files"
    ELSE IF ~dt.text.has THEN "nodata"
    ELSE IF dt.text.category = category /\ dt.text.slot = slotIndex THEN "same"
    ELSE "move"

\* slotDiv "drop", up to its fetch: what the handler decides to do
SlotDropDecision(dt, category, slotIndex) ==
    IF dt.files > 0 THEN "files"
    ELSE IF ~dt.text.has THEN "nodata"
    ELSE IF dt.text.path = ""
            \/ (dt.text.category = category /\ dt.text.slot = slotIndex) THEN "same"
    ELSE "move"

\* .samplepackbox "drop", up to its fetch; overSlot: a .sampleslot is under the pointer
BoxDropDecision(dt, overSlot) ==
    IF dt.files = 0 THEN "nofiles"
    ELSE IF ~overSlot THEN "noslot"
    ELSE "upload"

\* the slot index the box handler sends: slotElement.dataset.slot
BoxTargetSlot(el) == el.slot

\* what the drop carried, for the history
Carried(ev, dt, category, slotIndex) ==
    [ev EXCEPT !.files = dt.files, !.hasText = dt.text.has,
               !.hasPath = (dt.text.has /\ dt.text.path # ""),
               !.same = (dt.text.has /\ dt.text.category = category /\ dt.text.slot = slotIndex)]

(* A drop on the slot element i of container c.  The event reaches the slot's *)
(* handler and then, bubbling, the handler of the box that holds the slot     *)
(* (box.id is the category).  At most one of the two goes on to a request.    *)
SlotDrop(c, i) ==
    /\ OpzVisible
    /\ c \in Containers /\ i \in DOMAIN view[c]
    /\ \E dt \in DropPayloads :
        LET el == view[c][i]
            moves == SlotDropDecision(dt, el.category, el.slot) = "move"
            uploads == BoxDropDecision(dt, TRUE) = "upload"
            t0 == NewTask("drop", "opz")
            t1 == IF moves THEN Calling(t0, "/move-sample") ELSE t0
            t2 == IF uploads THEN Calling(t1, "/upload-sample") ELSE t1
            ev == Carried(Entered("slotdrop", el.category, el.slot, t2), dt, el.category, el.slot)
        IN  /\ Start(t2)
            /\ last' = [ev EXCEPT !.moves = IF moves THEN 1 ELSE 0,
                                  !.uploads = IF uploads THEN 1 ELSE 0,
                                  !.to = IF uploads THEN Target(c, BoxTargetSlot(el))
                                         ELSE IF moves THEN Target(el.category, el.slot)
                                         ELSE NoTarget]
    /\ Unhover(HoverSlot(c, i))
    /\ dataTransfer' = NoDrag
    /\ UNCHANGED <<fixed, op1Data, op1View, domRest, rendered, poll>>

\* A drop on box c beside its slots: only the box handler runs, and finds no slot.
BoxDrop(c) ==
    /\ OpzVisible
    /\ c \in Containers
    /\ \E dt \in DropPayloads :
        /\ BoxDropDecision(dt, FALSE) # "upload"
        /\ last' = [Entered("boxdrop", c, 0, NewTask("drop", "opz")) EXCEPT !.files = dt.files]
    /\ dataTransfer' = NoDrag
    /\ UNCHANGED <<fixed, op1Data, op1View, dom, tasks, rendered, poll>>

\* Faulty variant: the refresh moved out of the try, so that it follows a failed move too.
AfterMove_AlwaysRefresh(t, o) ==
    IF o = "ok" THEN Refreshing([t EXCEPT !.result = o])
    ELSE Refreshing([t EXCEPT !.result = o, !.alerts = @ + 1])

\* after `await fetch("/move-sample")`: refresh when response.ok, else alert
AfterMove(t, o) ==
    IF o = "ok" THEN Refreshing([t EXCEPT !.result = o])
    ELSE Alerted([t EXCEPT !.result = o])

\* the slot handler resumes after `await fetch("/move-sample", ...)`
MoveResponse(t) ==
    /\ t \in BagToSet(tasks)
    /\ t.pc = "call" /\ t.op = "/move-sample"
    /\ \E o \in CallOutcomes :
        /\ tasks' = Resume(tasks, t, AfterMove(t, o))
        /\ last' = Returned(AfterMove(t, o))
    /\ UNCHANGED <<fixed, op1Data, op1View, dom, dataTransfer, rendered, poll>>

\* after `await fetch("/upload-sample")` and `await response.json()`
AfterUpload(t, o) ==
    IF o = "ok" THEN Refreshing([t EXCEPT !.result = o])
    ELSE Alerted([t EXCEPT !.result = o])

\* the box handler resumes after `await fetch("/upload-sample", ...)`
UploadResponse(t) ==
    /\ t \in BagToSet(tasks)
    /\ t.pc = "call" /\ t.op = "/upload-sample" /\ t.dev = "opz"
    /\ \E o \in FetchOutcomes \cup CallOutcomes :
        /\ tasks' = Resume(tasks, t, AfterUpload(t, o))
        /\ last' = Returned(AfterUpload(t, o))
    /\ UNCHANGED <<fixed, op1Data, op1View, dom, dataTransfer, rendered, poll>>

-----------------------------------------------------------------------------
(* Deleting a sample *)

\* Faulty variant: the answer of confirm() is not looked at.
ConfirmThenCall_IgnoreAnswer(t, answer, op) == Calling(t, op)

\* confirm(...) and, when it is accepted, the DELETE request
ConfirmThenCall(t, answer, op) == IF answer THEN Calling(t, op) ELSE t

\* deleteBtn.onclick of a slot, up to its first await:
\* `if (!samplePath) return;` then confirm, then the DELETE
deleteBtn_onclick(t, path, answer) ==
    IF path = "" THEN t ELSE ConfirmThenCall(t, answer, "/delete-sample")

\* what a click on a delete button did, for the history
Clicked(gesture, category, slotIndex, t, asked, answer) ==
    [Entered(gesture, category, slotIndex, t) EXCEPT
        !.asked = asked, !.confirmed = (asked /\ answer), !.deletes = t.calls]

\* a click on the delete button of slot element i of container c
ClickDelete(c, i) ==
    /\ OpzVisible
    /\ c \in Containers /\ i \in DOMAIN view[c]
    /\ \E answer \in BOOLEAN :
        LET el == view[c][i]
            \* only the handler of samplemanager.js uses its slot and span after the await
            t0 == IF page = "samplemanager"
                  THEN [NewTask("delete", "opz") EXCEPT !.category = el.category, !.slot = el.slot]
                  ELSE NewTask("delete", "opz")
            t == deleteBtn_onclick(t0, el.path, answer)
        IN  /\ el.path = "" => answer
            /\ Start(t)
            /\ last' = Clicked("delete", c, el.slot, t, el.path # "", answer)
    /\ UNCHANGED <<fixed, op1Data, op1View, dom, dataTransfer, rendered, poll>>

\* configeditor.js deleteSample after `await fetch('/delete-sample')`:
\* refreshCallback() when response.ok, else the alert of the catch
CE_AfterDelete(t, o) ==
    IF o = "ok" THEN Refreshing([t EXCEPT !.result = o])
    ELSE AlertedMessage([t EXCEPT !.result = o], o)

\* deleteSample resumes (the sample of either device)
DeleteSampleResponse(t) ==
    /\ page = "configeditor"
    /\ t \in BagToSet(tasks)
    /\ t.pc = "call" /\ t.op = "/delete-sample"
    /\ \E o \in CallOutcomes :
        /\ tasks' = Resume(tasks, t, CE_AfterDelete(t, o))
        /\ last' = Returned(CE_AfterDelete(t, o))
    /\ UNCHANGED <<fixed, op1Data, op1View, dom, dataTransfer, rendered, poll>>

\* samplemanager.js deleteBtn.onclick after `await fetch(".../delete-sample")`
SM_AfterDelete(t, o) ==
    IF o = "ok" THEN [t EXCEPT !.result = o, !.pc = "done"]
    ELSE Alerted([t EXCEPT !.result = o])

\* samplemanager.js: slot.path = null; text.textContent = `Slot n: (empty)`,
\* on the slot object and the span the handler closes over
SM_AfterDeleteView(t, o, v) ==
    IF o = "ok" /\ t.attached
    THEN [v EXCEPT ![t.category][t.slot + 1] = [@ EXCEPT !.path = "", !.label = EmptyLabel, !.size = 0]]
    ELSE v

\* the delete handler of samplemanager.js resumes
SM_DeleteResponse(t) ==
    /\ page = "samplemanager"
    /\ t \in BagToSet(tasks)
    /\ t.pc = "call" /\ t.op = "/delete-sample"
    /\ \E o \in CallOutcomes :
        /\ tasks' = Resume(tasks, t, SM_AfterDelete(t, o))
        /\ last' = Returned(SM_AfterDelete(t, o))
        /\ view' = SM_AfterDeleteView(t, o, view)
    /\ UNCHANGED <<fixed, panel, op1Data, op1View, display, numSamples, storageUsed,
                   opzNumSamples, opzStorageUsed, OPZ_TOTAL_STORAGE, dataTransfer, rendered, poll>>

-----------------------------------------------------------------------------
(* The OP-1 view: fetchOp1Samples, renderOp1Section, and deleting in it *)

Op1File(n, p, cat) == [name |-> n, path |-> p, size |-> 1024, category |-> cat]
Subdir(n, files) == [name |-> n, files |-> files]

\* The body of GET /read-op1-samples; subdirectories in the order of the object's keys.
Op1Snapshot(err, drum, synth, st, counts) ==
    [validation_error |-> err, drum |-> drum, synth |-> synth, storage |-> st, counts |-> counts]
Counts(d, s, p) == [drum_samples |-> d, synth_samples |-> s, patches |-> p]

Op1Null == Op1Snapshot(FALSE, <<>>, <<>>, NoStorage, Counts(0, 0, 0))
Op1SnapA ==
    Op1Snapshot(FALSE,
        << Subdir("user", <<Op1File("u.aif", "drum/user/u.aif", "sample")>>),
           Subdir("zeta", <<Op1File("z.aif", "drum/zeta/z.aif", "sample")>>),
           Subdir("alpha", <<>>) >>,
        <<>>, Storage(100, 512000), Counts(2, 0, 0))
Op1SnapB ==
    Op1Snapshot(FALSE,
        << Subdir("alpha", <<Op1File("a.aif", "drum/alpha/a.aif", "sample")>>) >>,
        << Subdir("user", <<Op1File("p.aif", "synth/user/p.aif", "patch")>>) >>,
        Storage(200, 512000), Counts(1, 0, 1))
Op1SnapInvalid == Op1Snapshot(TRUE, <<>>, <<>>, NoStorage, Counts(0, 0, 0))
Op1Snapshots == {Op1SnapA, Op1SnapB, Op1SnapInvalid}
\* a body without `storage`: both sections render, then updateStorageDisplay throws
Op1SnapNoStorage ==
    Op1Snapshot(FALSE, << Subdir("zeta", <<>>), Subdir("alpha", <<>>) >>, <<>>,
                NoStorage, Counts(0, 0, 0))

\* the keys a section object may have, in every order the backend may list them
FolderNames == {"alpha", "beta", "user", "zeta"}
KeyOrders ==
    {s \in UNION {[1..n -> FolderNames] : n \in 0..MaxFolders} :
        \A i, j \in DOMAIN s : i # j => s[i] # s[j]}
Op1SnapKeys(s) ==
    Op1Snapshot(FALSE, [j \in DOMAIN s |-> Subdir(s[j], <<>>)], <<>>,
                Storage(100, 512000), Counts(0, 0, 0))
Op1RenderPool ==
    Op1Snapshots \cup {Op1SnapNoStorage} \cup {Op1SnapKeys(s) : s \in KeyOrders}

Sections == {"drum", "synth"}

\* a.localeCompare(b) < 0 on the folder names of the snapshots above
LexRank == [alpha |-> 1, beta |-> 2, user |-> 3, zeta |-> 4]
\* a comparator without the special case for "user"
SortsBefore_LexOnly(a, b) == LexRank[a] < LexRank[b]

\* the comparator of renderOp1Section says a sorts before b
SortsBefore(a, b) ==
    IF a = "user" THEN FALSE
    ELSE IF b = "user" THEN TRUE
    ELSE LexRank[a] < LexRank[b]

RECURSIVE InsertSorted(_, _)
InsertSorted(sorted, d) ==
    IF sorted = <<>> THEN <<d>>
    ELSE IF SortsBefore(d.name, Head(sorted).name) THEN <<d>> \o sorted
    ELSE <<Head(sorted)>> \o InsertSorted(Tail(sorted), d)

RECURSIVE SortSubdirs(_)
SortSubdirs(ds) ==
    IF ds = <<>> THEN <<>>
    ELSE InsertSorted(SortSubdirs(Tail(ds)), Head(ds))

\* a renderOp1Section for which no folder is read-only
FolderElement_Writable(parentFolder, d) ==
    [parent |-> parentFolder, name |-> d.name, readOnly |-> FALSE, collapsed |-> TRUE,
     files |-> [j \in DOMAIN d.files |-> d.files[j].path]]

\* the element renderOp1Section builds for one subdirectory: its dataset.path,
\* whether it lacks the Rename/Delete buttons, the file delete buttons and the
\* drop listener, its files; collapsed: its content has the class 'collapsed'
FolderElement(parentFolder, d) ==
    [parent |-> parentFolder, name |-> d.name, readOnly |-> (d.name = "user"),
     collapsed |-> TRUE,
     files |-> [j \in DOMAIN d.files |-> d.files[j].path]]

renderOp1Section(parentFolder, subdirectories) ==
    LET sorted == SortSubdirs(subdirectories)
    IN  [j \in DOMAIN sorted |-> FolderElement(parentFolder, sorted[j])]

\* updateStorageDisplay('op1', storage, {counts})
OP1_updateStorageDisplay(storage, counts) ==
    [storageUsed |-> storage.used, storageFree |-> storage.total - storage.used, counts |-> counts,
     bar |-> StorageBar(storage.used, storage.total)]

\* `storage.used` of an absent storage object is a TypeError, caught and logged by
\* fetchOp1Samples after both sections were rebuilt
Op1RenderThrows(data) == ~data.validation_error /\ ~data.storage.present

\* listeners: the `drop` listeners on each section element
Op1Empty ==
    [drum |-> <<>>, synth |-> <<>>,
     info |-> [storageUsed |-> 0, storageFree |-> 0, counts |-> Counts(0, 0, 0), bar |-> {}],
     listeners |-> [sec \in Sections |-> 0]]

\* renderOp1Section returns at `sortedSubdirs.length === 0`, before it reaches
\* setupOp1SectionDropZone; otherwise it adds one more listener to the section
AddsListener(subdirectories) == subdirectories # <<>>

\* the OP-1 elements can be pointed at
Op1Visible == page = "configeditor" /\ currentDevice = "op1" /\ ~panel.op1Hidden

\* fetchOp1Samples resumes, and then the handler that awaited it returns
Op1RefreshResponse(t) ==
    /\ t \in BagToSet(tasks)
    /\ t.pc = "refresh" /\ t.dev = "op1"
    /\ tasks' = Resume(tasks, t, AfterFetch(t))
    /\ \E o \in FetchOutcomes :
        IF o # "ok"
        THEN /\ last' = Returned(AfterFetch(t))
             /\ UNCHANGED <<op1Data, op1View, panel>>
        ELSE \E data \in pool.op1 :
                /\ last' = [Returned(AfterFetch(t)) EXCEPT !.rendered = TRUE]
                /\ op1Data' = data
                /\ IF data.validation_error
                   THEN /\ panel' = [panel EXCEPT !.error = TRUE, !.errorOf = "op1",
                                                  !.op1Hidden = TRUE]
                        /\ UNCHANGED op1View
                   ELSE /\ \A sec \in Sections :
                             AddsListener(data[sec]) => op1View.listeners[sec] < MaxListeners
                        /\ panel' = [panel EXCEPT !.error = FALSE, !.op1Hidden = FALSE,
                                                  !.hover = {h \in @ : h.kind # "subdir"}]
                        /\ op1View' = [drum |-> renderOp1Section("drum", data.drum),
                                       synth |-> renderOp1Section("synth", data.synth),
                                       info |-> IF Op1RenderThrows(data) THEN op1View.info
                                                ELSE OP1_updateStorageDisplay(data.storage,
                                                                              data.counts),
                                       listeners |->
                                           [sec \in Sections |->
                                               IF AddsListener(data[sec])
                                               THEN op1View.listeners[sec] + 1
                                               ELSE op1View.listeners[sec]]]
    /\ UNCHANGED <<fixed, view, display, numSamples, storageUsed, opzNumSamples,
                   opzStorageUsed, OPZ_TOTAL_STORAGE, dataTransfer, rendered, poll>>

\* deleteOp1Subdirectory(path), up to its first await
deleteOp1Subdirectory(t, answer) == ConfirmThenCall(t, answer, "/delete-op1-subdirectory")

\* a click on the Delete button in the header of folder j of a section
ClickDeleteFolder(section, j) ==
    /\ Op1Visible
    /\ section \in Sections /\ j \in DOMAIN op1View[section]
    /\ ~op1View[section][j].readOnly
    /\ \E answer \in BOOLEAN :
        LET t == deleteOp1Subdirectory(NewTask("delete", "op1"), answer)
        IN  /\ Start(t)
            /\ last' = [Clicked("deletefolder", section, j, t, TRUE, answer)
                            EXCEPT !.folder = op1View[section][j].name]
    /\ UNCHANGED <<fixed, op1Data, op1View, dom, dataTransfer, rendered, poll>>

\* a click on the delete button of file f of folder j: deleteSample('op1', path, fetchOp1Samples)
ClickDeleteFile(section, j, f) ==
    /\ Op1Visible
    /\ section \in Sections /\ j \in DOMAIN op1View[section]
    /\ ~op1View[section][j].readOnly
    /\ f \in DOMAIN op1View[section][j].files
    /\ \E answer \in BOOLEAN :
        LET t == ConfirmThenCall(NewTask("delete", "op1"), answer, "/delete-sample")
        IN  /\ Start(t)
            /\ last' = [Clicked("deletefile", section, j, t, TRUE, answer)
                            EXCEPT !.folder = op1View[section][j].name]
    /\ UNCHANGED <<fixed, op1Data, op1View, dom, dataTransfer, rendered, poll>>

\* deleteOp1Subdirectory after `await fetch('/delete-op1-subdirectory')`
AfterDeleteFolder(t, o) ==
    IF o = "ok" THEN Refreshing([t EXCEPT !.result = o])
    ELSE AlertedMessage([t EXCEPT !.result = o], o)

\* deleteOp1Subdirectory resumes
DeleteFolderResponse(t) ==
    /\ t \in BagToSet(tasks)
    /\ t.pc = "call" /\ t.op = "/delete-op1-subdirectory"
    /\ \E o \in CallOutcomes :
        /\ tasks' = Resume(tasks, t, AfterDeleteFolder(t, o))
        /\ last' = Returned(AfterDeleteFolder(t, o))
    /\ UNCHANGED <<fixed, op1Data, op1View, dom, dataTransfer, rendered, poll>>

-----------------------------------------------------------------------------
(* The OP-1 view: folder headers, renaming, and the two drop zones *)

\* a click on the header of folder j: toggles 'collapsed' on its content
ClickHeader(section, j) ==
    /\ Op1Visible
    /\ section \in Sections /\ j \in DOMAIN op1View[section]
    /\ op1View' = [op1View EXCEPT ![section][j].collapsed = ~@]
    /\ last' = [Entered("header", section, j, NewTask("click", "op1"))
                    EXCEPT !.folder = op1View[section][j].name]
    /\ UNCHANGED <<fixed, op1Data, dom, dataTransfer, tasks, rendered, poll>>

\* what the user does with prompt(`Enter new name for "${currentName}":`, currentName)
\* what prompt() returns: null, "", the name it proposed, another name
PromptAnswers == {"cancel", "empty", "same", "new"}

\* renameOp1Subdirectory(path), up to its first await
renameOp1Subdirectory(t, answer) ==
    IF answer = "new" THEN Calling(t, "/rename-op1-subdirectory") ELSE t

\* a click on the Rename button in the header of folder j
ClickRename(section, j) ==
    /\ Op1Visible
    /\ section \in Sections /\ j \in DOMAIN op1View[section]
    /\ ~op1View[section][j].readOnly
    /\ \E answer \in PromptAnswers :
        LET t == renameOp1Subdirectory(NewTask("rename", "op1"), answer)
        IN  /\ Start(t)
            /\ last' = [Entered("rename", section, j, t)
                            EXCEPT !.asked = TRUE, !.confirmed = (answer = "new"),
                                   !.answer = answer,
                                   !.folder = op1View[section][j].name]
    /\ UNCHANGED <<fixed, op1Data, op1View, dom, dataTransfer, rendered, poll>>

\* a handler that refreshes the view whatever the answer to its request
AfterRename_AlwaysRefresh(t, o) ==
    IF o = "ok" THEN Refreshing([t EXCEPT !.result = o])
    ELSE Refreshing([t EXCEPT !.result = o, !.alerts = @ + 1, !.said = "generic"])

\* renameOp1Subdirectory after `await fetch('/rename-op1-subdirectory')`
AfterRename(t, o) ==
    IF o = "ok" THEN Refreshing([t EXCEPT !.result = o])
    ELSE AlertedMessage([t EXCEPT !.result = o], o)

\* renameOp1Subdirectory resumes
RenameResponse(t) ==
    /\ t \in BagToSet(tasks)
    /\ t.pc = "call" /\ t.op = "/rename-op1-subdirectory"
    /\ \E o \in CallOutcomes :
        /\ tasks' = Resume(tasks, t, AfterRename(t, o))
        /\ last' = Returned(AfterRename(t, o))
    /\ UNCHANGED <<fixed, op1Data, op1View, dom, dataTransfer, rendered, poll>>

\* createOp1Subdirectory(parentFolder), up to its first await: `if (!name) return;`
\* (prompt proposes no name, so any name typed is sent)
createOp1Subdirectory(t, answer) ==
    IF answer \in {"cancel", "empty"} THEN t ELSE Calling(t, "/create-op1-subdirectory")

\* a click on "+ Add Folder" of a section
ClickAddFolder(section) ==
    /\ Op1Visible
    /\ section \in Sections
    /\ \E answer \in PromptAnswers \ {"same"} :
        LET t == createOp1Subdirectory(NewTask("create", "op1"), answer)
        IN  /\ Start(t)
            /\ last' = [Entered("create", section, 0, t)
                            EXCEPT !.asked = TRUE, !.confirmed = (answer = "new"),
                                   !.answer = answer]
    /\ UNCHANGED <<fixed, op1Data, op1View, dom, dataTransfer, rendered, poll>>

\* createOp1Subdirectory after `await fetch('/create-op1-subdirectory')`
AfterCreate(t, o) ==
    IF o = "ok" THEN Refreshing([t EXCEPT !.result = o])
    ELSE AlertedMessage([t EXCEPT !.result = o], o)

\* createOp1Subdirectory resumes
CreateResponse(t) ==
    /\ t \in BagToSet(tasks)
    /\ t.pc = "call" /\ t.op = "/create-op1-subdirectory"
    /\ \E o \in CallOutcomes :
        /\ tasks' = Resume(tasks, t, AfterCreate(t, o))
        /\ last' = Returned(AfterCreate(t, o))
    /\ UNCHANGED <<fixed, op1Data, op1View, dom, dataTransfer, rendered, poll>>

\* the `drop` listener of a folder element, up to its first await; a read-only
\* folder has none.  n = e.dataTransfer.files.length
subdirDrop(el, n) ==
    LET t == NewTask("subdirdrop", "op1")
    IN  IF el.readOnly \/ n = 0 THEN t
        ELSE Calling([t EXCEPT !.files = n - 1], "/upload-sample")

(* Files dragged from outside are dropped on folder element j.  The event    *)
(* bubbles to the section's listeners, which return at once, as the first    *)
(* item is no directory.                                                     *)
SubdirDrop(section, j) ==
    /\ Op1Visible
    /\ section \in Sections /\ j \in DOMAIN op1View[section]
    /\ \E n \in 0..MaxFiles :
        LET t == subdirDrop(op1View[section][j], n)
        IN  /\ Start(t)
            /\ last' = [Entered("subdirdrop", section, j, t)
                            EXCEPT !.files = n, !.uploads = t.calls,
                                   !.folder = op1View[section][j].name]
    /\ Unhover(HoverSubdir(section, j))
    /\ UNCHANGED <<fixed, op1Data, op1View, domRest, dataTransfer, rendered, poll>>

\* a drop listener whose loop ends at the first upload that fails
AfterSubdirUpload_AbortOnFailure(t, o) ==
    IF o # "ok" THEN AlertedMessage([t EXCEPT !.result = o], o)
    ELSE IF t.files > 0
         THEN Calling([t EXCEPT !.result = o, !.files = @ - 1], "/upload-sample")
         ELSE Refreshing([t EXCEPT !.result = o])

\* the loop of the folder's drop listener after one `await fetch('/upload-sample')`:
\* alert on failure, then the next file, and after the last one fetchOp1Samples()
AfterSubdirUpload(t, o) ==
    LET a == IF o = "ok" THEN [t EXCEPT !.result = o]
             ELSE [t EXCEPT !.result = o, !.alerts = @ + 1,
                            !.said = IF o = "error" THEN "body" ELSE "generic"]
    IN  IF a.files > 0 THEN Calling([a EXCEPT !.files = @ - 1], "/upload-sample")
        ELSE Refreshing(a)

\* the folder's drop listener resumes
SubdirUploadResponse(t) ==
    /\ t \in BagToSet(tasks)
    /\ t.pc = "call" /\ t.op = "/upload-sample" /\ t.dev = "op1"
    /\ \E o \in CallOutcomes :
        /\ tasks' = Resume(tasks, t, AfterSubdirUpload(t, o))
        /\ last' = Returned(AfterSubdirUpload(t, o))
    /\ UNCHANGED <<fixed, op1Data, op1View, dom, dataTransfer, rendered, poll>>

\* e.dataTransfer.items of a drop on a section: none, a file first, or first a
\* directory that has n files directly in it
NoItems == [entry |-> "none", files |-> 0]
FileItem == [entry |-> "file", files |-> 0]
DirectoryItem(n) == [entry |-> "directory", files |-> n]
DropItems == {NoItems, FileItem} \cup {DirectoryItem(n) : n \in 0..MaxFiles}

\* one `drop` listener of a section, up to `await getFilesFromDirectory(entry)`
sectionDrop(item) ==
    LET t == NewTask("sectiondrop", "op1")
    IN  IF item.entry = "directory" THEN [t EXCEPT !.pc = "read", !.files = item.files]
        ELSE t

\* a drop on the element of a section: every listener added to it so far runs
SectionDrop(section) ==
    /\ Op1Visible
    /\ section \in Sections /\ op1View.listeners[section] > 0
    /\ \E item \in DropItems :
        LET t == sectionDrop(item)
            k == op1View.listeners[section]
        IN  /\ IF t.pc = "done" THEN tasks' = tasks
               ELSE /\ BagCardinality(tasks) + k <= MaxTasks
                    /\ tasks' = tasks (+) (t :> k)
            /\ last' = [Entered("sectiondrop", section, 0, t) EXCEPT !.files = item.files]
    /\ Unhover(HoverSection(section))
    /\ UNCHANGED <<fixed, op1Data, op1View, domRest, dataTransfer, rendered, poll>>

\* a listener that uploads whatever getFilesFromDirectory found
AfterReadEntries_NoEmptyCheck(t) == Calling([t EXCEPT !.files = 0], "/upload-op1-folder")

\* after `await getFilesFromDirectory(entry)`: alert('The folder is empty.') and
\* return, or POST all the files in one request
AfterReadEntries(t) ==
    IF t.files = 0 THEN Alerted(t)
    ELSE Calling([t EXCEPT !.files = 0], "/upload-op1-folder")

\* getFilesFromDirectory resolves
ReadEntries(t) ==
    /\ t \in BagToSet(tasks)
    /\ t.pc = "read"
    /\ tasks' = Resume(tasks, t, AfterReadEntries(t))
    /\ last' = [Returned(AfterReadEntries(t)) EXCEPT !.gesture = "readentries",
                                                     !.files = t.files]
    /\ UNCHANGED <<fixed, op1Data, op1View, dom, dataTransfer, rendered, poll>>

\* How POST /upload-op1-folder may end, besides CallOutcomes: 2xx with a body
\* that lists `errors`, or 2xx with a body that is no JSON
FolderUploadOutcomes == CallOutcomes \cup {"partial", "badbody"}

\* after `await fetch('/upload-op1-folder')`: an alert unless all went well, and
\* fetchOp1Samples() in either case
AfterFolderUpload(t, o) ==
    IF o = "ok" THEN Refreshing([t EXCEPT !.result = o])
    ELSE Refreshing([t EXCEPT !.result = o, !.alerts = @ + 1,
                              !.said = IF o \in {"error", "partial"} THEN "body"
                                       ELSE "generic"])

\* the section's drop listener resumes
FolderUploadResponse(t) ==
    /\ t \in BagToSet(tasks)
    /\ t.pc = "call" /\ t.op = "/upload-op1-folder"
    /\ \E o \in FolderUploadOutcomes :
        /\ tasks' = Resume(tasks, t, AfterFolderUpload(t, o))
        /\ last' = Returned(AfterFolderUpload(t, o))
    /\ UNCHANGED <<fixed, op1Data, op1View, dom, dataTransfer, rendered, poll>>

-----------------------------------------------------------------------------
(* pollForMount(retries, delay) *)

(* The run of pollForMount.                                                  *)
(*   pc       "start"; "query": awaiting the mount-path query; "sleep":      *)
(*            awaiting the timer; "load": awaiting what it called on         *)
(*            success; "done": returned                                      *)
(*   i        the loop variable                                              *)
(*   queries, delays, loads   mount-path queries issued, timers elapsed,     *)
(*            calls of fetchOpzSamples (samplemanager.js) or loadAllConfigs  *)
(*            (configeditor.js)                                              *)
(*   seen     what each query observed: "value", "empty" or "fail"           *)
(*   slept    the number of timers that had elapsed when the loader was called *)
(*   warned   console.warn("Mount path not found after polling.")            *)
NewPoll(retries) ==
    [pc |-> "start", i |-> 0, retries |-> retries, queries |-> 0, delays |-> 0,
     loads |-> 0, seen |-> <<>>, slept |-> 0, warned |-> FALSE]

\* the poll of a page whose start-up is over
PollOver == [NewPoll(0) EXCEPT !.pc = "done"]

\* Faulty variant: the loop test off by one, `i <= retries`.
PollIterate_OffByOne(p) ==
    IF p.i <= p.retries
    THEN [p EXCEPT !.pc = "query", !.queries = @ + 1]
    ELSE [p EXCEPT !.pc = "done", !.warned = TRUE]

\* the loop test `i < retries`, then the query or the warning
PollIterate(p) ==
    IF p.i < p.retries
    THEN [p EXCEPT !.pc = "query", !.queries = @ + 1]
    ELSE [p EXCEPT !.pc = "done", !.warned = TRUE]

\* the script calls pollForMount()
PollStart ==
    /\ poll.pc = "start"
    /\ poll' = PollIterate(poll)
    /\ last' = NoEvent
    /\ UNCHANGED <<fixed, op1Data, op1View, dom, dataTransfer, tasks, rendered>>

\* What one query observes: a truthy config_value, a falsy one, or a
\* rejection of fetch() or res.json().
Observations == {"value", "empty", "fail"}

\* Faulty variant: the `return` after the loader is missing, the loop goes on.
AfterQuery_NoReturn(p, a) ==
    IF a = "value"
    THEN [p EXCEPT !.seen = Append(@, a), !.pc = "sleep", !.loads = @ + 1, !.slept = p.delays]
    ELSE [p EXCEPT !.seen = Append(@, a), !.pc = "sleep"]

\* after the query: call the loader on a truthy value, else go to sleep
AfterQuery(p, a) ==
    IF a = "value"
    THEN [p EXCEPT !.seen = Append(@, a), !.pc = "load", !.loads = @ + 1, !.slept = p.delays]
    ELSE [p EXCEPT !.seen = Append(@, a), !.pc = "sleep"]

\* pollForMount resumes after the mount-path query
PollAnswer ==
    /\ poll.pc = "query"
    /\ \E a \in Observations :
        /\ poll' = AfterQuery(poll, a)
        /\ IF poll'.pc = "load" /\ page = "samplemanager"
           THEN tasks' = tasks (+) SetToBag({Refreshing(NewTask("load", "opz"))})
           ELSE UNCHANGED tasks
    /\ last' = NoEvent
    /\ UNCHANGED <<fixed, op1Data, op1View, dom, dataTransfer, rendered>>

\* samplemanager.js: `await fetchOpzSamples(); return;`  fetchOpzSamples never rejects.
SM_PollLoaded ==
    /\ page = "samplemanager"
    /\ poll.pc = "load"
    /\ tasks = EmptyBag
    /\ poll' = [poll EXCEPT !.pc = "done"]
    /\ last' = NoEvent
    /\ UNCHANGED <<fixed, op1Data, op1View, dom, dataTransfer, tasks, rendered>>

\* configeditor.js: `await loadAllConfigs(); return;`  loadAllConfigs rejects when
\* one of its three loads does; the catch of the loop then logs and the loop goes on.
AfterLoadAllConfigs(p, resolved) == [p EXCEPT !.pc = IF resolved THEN "done" ELSE "sleep"]

CE_PollLoaded ==
    /\ page = "configeditor"
    /\ poll.pc = "load"
    /\ \E resolved \in BOOLEAN : poll' = AfterLoadAllConfigs(poll, resolved)
    /\ last' = NoEvent
    /\ UNCHANGED <<fixed, op1Data, op1View, dom, dataTransfer, tasks, rendered>>

\* the timer of `await new Promise(r => setTimeout(r, delay))` fires; i++
PollWake ==
    /\ poll.pc = "sleep"
    /\ poll' = PollIterate([poll EXCEPT !.i = @ + 1, !.delays = @ + 1])
    /\ last' = NoEvent
    /\ UNCHANGED <<fixed, op1Data, op1View, dom, dataTransfer, tasks, rendered>>

\* Some handler of configeditor.js calls fetchOp1Samples(): switchDevice('op1'),
\* or a handler of the OP-1 view after its request.
Op1Refetch ==
    /\ page = "configeditor" /\ currentDevice = "op1"
    /\ Start(Refreshing(NewTask("load", "op1")))
    /\ last' = NoEvent
    /\ UNCHANGED <<fixed, op1Data, op1View, dom, dataTransfer, rendered, poll>>

-----------------------------------------------------------------------------
(* The hover state of the drop targets: the dragover and dragleave handlers *)

\* the elements on the page that have dragover and dragleave handlers
DropTargets ==
    {HoverSlot(c, i) : c \in {d \in Containers : OpzVisible}, i \in 1..MaxFolders}
    \cup {HoverSubdir(s, j) : s \in {d \in Sections : Op1Visible}, j \in 1..MaxFolders}
    \cup {HoverSection(s) : s \in {d \in Sections : Op1Visible}}

OnPage(target) ==
    CASE target.kind = "slot" -> target.index \in DOMAIN view[target.at]
      [] target.kind = "subdir" ->
            /\ target.index \in DOMAIN op1View[target.at]
            /\ ~op1View[target.at][target.index].readOnly
      [] OTHER -> op1View.listeners[target.at] > 0

\* whether the dragleave handler of the element removes 'drag-hover': the slot's
\* always does; a folder's and a section's `if (!el.contains(e.relatedTarget))`
leaveClears(target, inside) == target.kind = "slot" \/ ~inside

\* a dragover event on a drop target; the section's handler adds the class only
\* when the drag has items
DragOver(target) ==
    /\ target \in DropTargets /\ OnPage(target)
    /\ \E items \in BOOLEAN :
        /\ panel' = IF target.kind = "section" /\ ~items THEN panel
                    ELSE [panel EXCEPT !.hover = @ \cup {target}]
        /\ last' = [NoEvent EXCEPT !.started = TRUE, !.returned = TRUE,
                                   !.gesture = "dragover", !.over = target]
    /\ UNCHANGED <<fixed, op1Data, op1View, domRest, dataTransfer, tasks, rendered, poll>>

\* a dragleave event on a drop target: the pointer went to an element inside the
\* target, or to one outside it (or out of the window)
DragLeave(target) ==
    /\ target \in DropTargets /\ OnPage(target)
    /\ \E inside \in BOOLEAN :
        /\ panel' = IF leaveClears(target, inside)
                    THEN [panel EXCEPT !.hover = @ \ {target}] ELSE panel
        /\ last' = [NoEvent EXCEPT !.started = TRUE, !.returned = TRUE,
                                   !.gesture = "dragleave", !.over = target,
                                   !.inside = inside]
    /\ UNCHANGED <<fixed, op1Data, op1View, domRest, dataTransfer, tasks, rendered, poll>>

-----------------------------------------------------------------------------
(* The click handler of #save-button of configeditor.js *)

\* the endpoints the handler posts to, in the order of its statements
SaveOps == <<"/save-config/general", "/save-config/midi", "/save-config/dmx">>

\* a click on the save button: the handler parses the general form and awaits
\* its first fetch
ClickSave ==
    /\ page = "configeditor"
    /\ Start(Calling(NewTask("saveall", ""), SaveOps[1]))
    /\ last' = Entered("saveall", "", 0, Calling(NewTask("saveall", ""), SaveOps[1]))
    /\ UNCHANGED <<fixed, op1Data, op1View, dom, dataTransfer, rendered, poll>>

\* The handler after one `await fetch('/save-config/...')`.  fetch rejects only
\* when the request fails at transport: the catch then alerts the error text.
\* An answer, 2xx or not, is not looked at: the next save follows, and after the
\* third the alert 'All configurations saved successfully!'.
AfterSaveConfig(t, o) ==
    LET a == [t EXCEPT !.result = o, !.answers = Append(@, o)]
    IN  IF o = "transport"
        THEN [a EXCEPT !.pc = "done", !.alerts = @ + 1, !.said = "error"]
        ELSE IF a.calls < Len(SaveOps) THEN Calling(a, SaveOps[a.calls + 1])
        ELSE [a EXCEPT !.pc = "done", !.alerts = @ + 1, !.said = "success"]

\* the save handler resumes
SaveConfigResponse(t) ==
    /\ t \in BagToSet(tasks)
    /\ t.kind = "saveall" /\ t.pc = "call"
    /\ \E o \in Outcomes :
        /\ tasks' = Resume(tasks, t, AfterSaveConfig(t, o))
        /\ last' = Returned(AfterSaveConfig(t, o))
    /\ UNCHANGED <<fixed, op1Data, op1View, dom, dataTransfer, rendered, poll>>

-----------------------------------------------------------------------------
(* Device tabs: initDeviceTabs and switchDevice of configeditor.js *)

Devices == {"opz", "op1"}

\* a switchDevice that shows the chosen container and leaves the other as it is
SwitchContainers_ShowOnly(device, pnl) ==
    IF device = "opz"
    THEN [pnl EXCEPT !.opzContainerHidden = FALSE]
    ELSE [pnl EXCEPT !.op1ContainerHidden = FALSE]

\* switchDevice: tab.classList.toggle('active', tab.dataset.device === device) on
\* every tab; opzContainer.hidden = ...; op1Container.hidden = ...
SwitchContainers(device, pnl) ==
    IF device = "opz"
    THEN [pnl EXCEPT !.activeTab = device,
                     !.opzContainerHidden = FALSE, !.op1ContainerHidden = TRUE]
    ELSE [pnl EXCEPT !.activeTab = device,
                     !.opzContainerHidden = TRUE, !.op1ContainerHidden = FALSE]

\* the containers are as the latest switchDevice(currentDevice) left them
Switched == panel = SwitchContainers(currentDevice, panel)

\* initDeviceTabs awaiting GET /get-config-setting; the tab handlers are not yet added
InitTabs == [NewTask("init", "") EXCEPT !.pc = "config"]

\* switchDevice(device) up to its await of the device's fetch, in a page whose
\* suspended runs are ts
switchDevice(device, ts) ==
    LET t == Refreshing(NewTask("switch", device))
    IN  /\ currentDevice' = device
        /\ panel' = SwitchContainers(device, panel)
        /\ tasks' = ts (+) SetToBag({t})
        /\ last' = Entered("switch", "", 0, t)
        /\ UNCHANGED <<page, pool, backend, view, op1Data, op1View, display, numSamples,
                       storageUsed, opzNumSamples, opzStorageUsed, OPZ_TOTAL_STORAGE,
                       dataTransfer, rendered, poll>>

\* the values of SELECTED_DEVICE in the backend's configuration: a device, or none
SavedDevice == Devices \cup {"none"}

\* initDeviceTabs resumes from GET /get-config-setting?config_option=SELECTED_DEVICE
\* with the saved device, or with no value or a failure (currentDevice stays as
\* declared); it adds the click handlers and calls switchDevice(currentDevice)
InitTabsAnswer ==
    /\ InitTabs \in BagToSet(tasks)
    /\ \E v \in {backend.selected, "none"} :
        switchDevice(IF v = "none" THEN currentDevice ELSE v, tasks (-) SetToBag({InitTabs}))

\* a click on the tab of `device`
TabClick(device) ==
    /\ page = "configeditor"
    /\ InitTabs \notin BagToSet(tasks)
    /\ BagCardinality(tasks) < MaxTasks
    /\ switchDevice(device, tasks)

\* switchDevice resumes from POST /set-config-setting: the backend answered, having
\* saved the device, or the request failed (logged), saved or not
SaveResponse(t) ==
    /\ t \in BagToSet(tasks)
    /\ t.pc = "save"
    /\ \E o \in Outcomes, saved \in BOOLEAN :
        LET u == [t EXCEPT !.pc = "done", !.result = o]
        IN  /\ o = "ok" => saved
            /\ backend' = IF saved THEN [backend EXCEPT !.selected = t.dev] ELSE backend
            /\ tasks' = Resume(tasks, t, u)
            /\ last' = Returned(u)
    /\ UNCHANGED <<page, pool, currentDevice, view, panel, op1Data, op1View, display, numSamples, storageUsed,
                   opzNumSamples, opzStorageUsed, OPZ_TOTAL_STORAGE, dataTransfer,
                   rendered, poll>>

-----------------------------------------------------------------------------
(* Specifications *)

\* the backend before any request of the page: nothing applied, no device saved
NewBackend == [version |-> 0, selected |-> "none"]

\* the page as its HTML and the scripts' declarations leave it
InitPage ==
    /\ page \in {"samplemanager", "configeditor"}
    /\ view = [c \in Containers |-> <<>>]
    /\ \E hz, h1 \in BOOLEAN, tab \in Devices \cup {"none"} :
        panel = [error |-> FALSE, opzHidden |-> FALSE, op1Hidden |-> FALSE,
                 opzContainerHidden |-> hz, op1ContainerHidden |-> h1, activeTab |-> tab,
                 hover |-> {}, errorOf |-> "none"]
    /\ op1Data = Op1Null
    /\ op1View = Op1Empty
    /\ display = [samplesUsed |-> 0, storageUsed |-> 0, storageFree |-> 0, bar |-> {}]
    /\ numSamples = 0
    /\ storageUsed = 0
    /\ opzNumSamples = 0
    /\ opzStorageUsed = 0
    /\ OPZ_TOTAL_STORAGE = OPZ_TOTAL_STORAGE_INITIAL
    /\ dataTransfer = NoDrag
    /\ last = NoEvent
    /\ rendered = [data |-> SnapNoSlots, status |-> "none", updates |-> 0]

(* The page in use.  Start-up is over: the poll of samplemanager.js has seen  *)
(* the mount path, or initDeviceTabs of configeditor.js has called            *)
(* switchDevice(currentDevice); the first fetch of the device view is on its  *)
(* way.                                                                        *)
Init ==
    /\ InitPage
    /\ backend = NewBackend
    /\ pool = [opz |-> GesturePool, op1 |-> Op1Snapshots]
    /\ currentDevice \in (IF page = "samplemanager" THEN {"opz"} ELSE {"opz", "op1"})
    /\ Switched
    /\ tasks = SetToBag({Refreshing(NewTask("load", currentDevice))})
    /\ poll = PollOver

Next ==
    \/ \E c \in Containers : \E i \in 1..2 : DragStart(c, i)
    \/ \E c \in Containers : \E i \in 1..2 : SlotDrop(c, i)
    \/ \E c \in Containers : BoxDrop(c)
    \/ \E c \in Containers : \E i \in 1..2 : ClickDelete(c, i)
    \/ \E s \in Sections : \E j \in 1..MaxFolders : ClickDeleteFolder(s, j)
    \/ \E s \in Sections : \E j \in 1..MaxFolders : \E f \in 1..1 : ClickDeleteFile(s, j, f)
    \/ \E t \in BagToSet(tasks) : MoveResponse(t)
    \/ \E t \in BagToSet(tasks) : UploadResponse(t)
    \/ \E t \in BagToSet(tasks) : DeleteSampleResponse(t)
    \/ \E t \in BagToSet(tasks) : SM_DeleteResponse(t)
    \/ \E t \in BagToSet(tasks) : DeleteFolderResponse(t)
    \/ \E t \in BagToSet(tasks) : RefreshResponse(t)
    \/ \E t \in BagToSet(tasks) : Op1RefreshResponse(t)

Spec == Init /\ [][Next]_vars

(* Renders only: the backend answers with bodies of every shape.             *)
InitRender ==
    /\ InitPage
    /\ backend = NewBackend
    /\ pool = [opz |-> RenderPool, op1 |-> Op1RenderPool]
    /\ currentDevice \in (IF page = "samplemanager" THEN {"opz"} ELSE {"opz", "op1"})
    /\ Switched
    /\ tasks = EmptyBag
    /\ poll = PollOver

NextRender ==
    \/ currentDevice = "opz" /\ Refetch
    \/ Op1Refetch
    \/ \E t \in BagToSet(tasks) : RefreshResponse(t)
    \/ \E t \in BagToSet(tasks) : Op1RefreshResponse(t)

SpecRender == InitRender /\ [][NextRender]_vars

(* Start-up: the script has just been loaded and calls pollForMount.         *)
InitPoll ==
    /\ InitPage
    /\ backend = NewBackend
    /\ pool = [opz |-> RenderPool, op1 |-> Op1RenderPool]
    /\ currentDevice = "opz"
    /\ Switched
    /\ tasks = EmptyBag
    /\ \E r \in 0..MaxRetries : poll = NewPoll(r)

NextPoll ==
    \/ PollStart
    \/ PollAnswer
    \/ SM_PollLoaded
    \/ CE_PollLoaded
    \/ PollWake
    \/ \E t \in BagToSet(tasks) : RefreshResponse(t)

\* Timers fire and every request is answered or fails.
SpecPoll == InitPoll /\ [][NextPoll]_vars /\ WF_vars(NextPoll)

(* updateStorageDisplay of configeditor.js on a storage object of any size:  *)
(* the backend reports one single-slot snapshot, whose storage Init draws.   *)
DisplayInputs ==
    {Storage(u, t) : u \in (0 - 1)..(MaxTotal + 1), t \in 0..MaxTotal}
        \cup {Storage(u, 2000) : u \in {1198, 1199, 1200, 1201, 1698, 1699, 1700, 1701}}

InitDisplay ==
    /\ InitPage
    /\ backend = NewBackend
    /\ page = "configeditor"
    /\ \E s \in DisplayInputs :
        pool = [opz |-> {Snapshot(FALSE, s, <<"c1">>, << <<Kick>> >>)}, op1 |-> {}]
    /\ currentDevice = "opz"
    /\ Switched
    /\ tasks = EmptyBag
    /\ poll = PollOver

NextDisplay ==
    \/ Refetch
    \/ \E t \in BagToSet(tasks) : RefreshResponse(t)

SpecDisplay == InitDisplay /\ [][NextDisplay]_vars

(* The device tabs: the page of configeditor.js has just been loaded and      *)
(* initDeviceTabs was called; whether the containers start hidden is up to   *)
(* the page's HTML.                                                          *)
InitSwitch ==
    /\ InitPage
    /\ \E d \in SavedDevice : backend = [NewBackend EXCEPT !.selected = d]
    /\ page = "configeditor"
    /\ pool = [opz |-> {SnapA, SnapInvalid}, op1 |-> {Op1SnapA, Op1SnapInvalid}]
    /\ currentDevice = "opz"
    /\ tasks = SetToBag({InitTabs})
    /\ poll = PollOver

NextSwitch ==
    \/ InitTabsAnswer
    \/ \E device \in Devices : TabClick(device)
    \/ \E t \in BagToSet(tasks) : RefreshResponse(t)
    \/ \E t \in BagToSet(tasks) : Op1RefreshResponse(t)
    \/ \E t \in BagToSet(tasks) : SaveResponse(t)

SpecSwitch == InitSwitch /\ [][NextSwitch]_vars

(* The OP-1 view in use, one gesture at a time: switchDevice('op1') has been  *)
(* called and its fetch is on its way.                                       *)
InitOp1 ==
    /\ InitPage
    /\ backend = NewBackend
    /\ page = "configeditor"
    /\ pool = [opz |-> {}, op1 |-> {Op1SnapA, Op1SnapB, Op1SnapInvalid}]
    /\ currentDevice = "op1"
    /\ Switched
    /\ tasks = SetToBag({Refreshing(NewTask("load", "op1"))})
    /\ poll = PollOver

\* no handler is suspended: the user waits for one gesture to finish before the next
Idle == tasks = EmptyBag

(* The configuration forms of configeditor.js: the save button is clicked,   *)
(* again before the saves of the click before it are through, at most.        *)
InitSave ==
    /\ InitPage
    /\ backend = NewBackend
    /\ page = "configeditor"
    /\ pool = [opz |-> {}, op1 |-> {}]
    /\ currentDevice \in Devices
    /\ Switched
    /\ tasks = EmptyBag
    /\ poll = PollOver

NextSave ==
    \/ ClickSave
    \/ \E t \in BagToSet(tasks) : SaveConfigResponse(t)

SpecSave == InitSave /\ [][NextSave]_vars

(* A drag moves over the rendered view of either device.                     *)
InitHover ==
    /\ InitPage
    /\ backend = NewBackend
    /\ pool = [opz |-> {SnapA, SnapB}, op1 |-> {Op1SnapA, Op1SnapB}]
    /\ currentDevice \in (IF page = "samplemanager" THEN {"opz"} ELSE {"opz", "op1"})
    /\ Switched
    /\ tasks = SetToBag({Refreshing(NewTask("load", currentDevice))})
    /\ poll = PollOver

NextHover ==
    \/ \E t \in BagToSet(tasks) : RefreshResponse(t)
    \/ \E t \in BagToSet(tasks) : Op1RefreshResponse(t)
    \/ \E target \in DropTargets : DragOver(target)
    \/ \E target \in DropTargets : DragLeave(target)

SpecHover == InitHover /\ [][NextHover]_vars

NextOp1 ==
    \/ Idle /\ \E s \in Sections : \E j \in 1..MaxFolders : ClickHeader(s, j)
    \/ Idle /\ \E s \in Sections : \E j \in 1..MaxFolders : ClickRename(s, j)
    \/ Idle /\ \E s \in Sections : ClickAddFolder(s)
    \/ Idle /\ \E s \in Sections : \E j \in 1..MaxFolders : ClickDeleteFolder(s, j)
    \/ Idle /\ \E s \in Sections : \E j \in 1..MaxFolders : \E f \in 1..1 :
            ClickDeleteFile(s, j, f)
    \/ Idle /\ \E s \in Sections : \E j \in 1..MaxFolders : SubdirDrop(s, j)
    \/ Idle /\ \E s \in Sections : SectionDrop(s)
    \/ \E t \in BagToSet(tasks) : ReadEntries(t)
    \/ \E t \in BagToSet(tasks) : RenameResponse(t)
    \/ \E t \in BagToSet(tasks) : CreateResponse(t)
    \/ \E t \in BagToSet(tasks) : SubdirUploadResponse(t)
    \/ \E t \in BagToSet(tasks) : FolderUploadResponse(t)
    \/ \E t \in BagToSet(tasks) : DeleteSampleResponse(t)
    \/ \E t \in BagToSet(tasks) : DeleteFolderResponse(t)
    \/ \E t \in BagToSet(tasks) : Op1RefreshResponse(t)

SpecOp1 == InitOp1 /\ [][NextOp1]_vars

(* Overlapping gestures on the OP-Z view of configeditor.js, with the backend *)
(* followed: each request is handled at some moment between its being sent   *)
(* and its answer arriving.                                                  *)
InitStale ==
    /\ InitPage
    /\ backend = NewBackend
    /\ page = "configeditor"
    /\ pool = [opz |-> {}, op1 |-> {}]
    /\ currentDevice = "opz"
    /\ Switched
    /\ tasks = SetToBag({Refreshing(NewTask("load", "opz"))})
    /\ poll = PollOver

NextStale ==
    \/ \E c \in Containers : \E i \in 1..MaxVersion : DragStart(c, i)
    \/ \E c \in Containers : \E i \in 1..MaxVersion : SlotDrop(c, i)
    \/ \E t \in BagToSet(tasks) : BackendHandles(t)
    \/ \E t \in BagToSet(tasks) : BackendReads(t)
    \/ \E t \in BagToSet(tasks) : t.handled /\ MoveResponse(t)
    \/ \E t \in BagToSet(tasks) : t.handled /\ UploadResponse(t)
    \/ \E t \in BagToSet(tasks) : t.seen # NotSeen /\ RefreshResponse(t)

SpecStale == InitStale /\ [][NextStale]_vars

-----------------------------------------------------------------------------
(* Properties *)

Failures == {"non2xx", "error", "transport"}

\* the step entered the drop handlers of a slot with an internal move payload
\* alone: no native file, a text with a path, from another slot
MovePayloadDropped ==
    /\ last.started /\ last.gesture = "slotdrop"
    /\ last.files = 0 /\ last.hasPath /\ ~last.same

\* the latest step belongs to a run that has had the answer to its move call
MoveAnswered == last.task.op = "/move-sample" /\ last.task.result # ""

(* C1, as stated: a drop of an internal move payload (with a path, from      *)
(* another slot) on an OP-Z slot issues one move-sample call, and the run    *)
(* then calls fetchOpzSamples whether the move call succeeded or failed.     *)
C1_RefreshAfterEveryMove ==
    /\ MovePayloadDropped =>
            last.moves = 1 /\ last.task.calls = 1 /\ last.task.op = "/move-sample"
    /\ MoveAnswered => last.task.refreshes = 1

(* C1, amended: such a drop issues exactly one move-sample call and no       *)
(* upload; the run calls fetchOpzSamples (once) exactly when the move call   *)
(* succeeded; when it failed, by a non-2xx answer or a transport error, the  *)
(* run alerts the user once, calls no refresh, and returns.                  *)
C1_RefreshOnlyAfterSuccessfulMove ==
    /\ MovePayloadDropped =>
            /\ last.moves = 1 /\ last.uploads = 0
            /\ last.task.calls = 1 /\ last.task.op = "/move-sample"
            /\ last.task.pc = "call" /\ last.task.refreshes = 0
    /\ (MoveAnswered /\ last.task.result = "ok") =>
            last.task.refreshes = 1 /\ last.task.alerts = 0 /\ last.task.calls = 1
    /\ (MoveAnswered /\ last.task.result \in Failures) =>
            /\ last.task.refreshes = 0 /\ last.task.alerts = 1 /\ last.task.calls = 1
            /\ last.returned /\ ~last.rendered

\* C1 witness: a move call has failed at transport and its handler returned
C1_FailedMoveReturned ==
    /\ MoveAnswered /\ last.task.result = "transport"
    /\ last.returned /\ last.task.kind = "drop"

(* C2, as stated: every gesture whose mutating call succeeded is followed by *)
(* a re-fetch of the snapshot: the run of a drop or delete handler whose     *)
(* call was answered 2xx has called the device's fetch once.                 *)
C2_EverySuccessRefetches ==
    (last.task.kind \in {"drop", "delete"} /\ last.task.result = "ok") =>
        last.task.refreshes = 1

\* the slots of a snapshot, as <<category index, slot index>>
AllSlots(data) ==
    UNION { {<<c, k>> : k \in 1..Len(data.sampleData[c])} :
            c \in 1..Len(data.sampleData) }

\* The rule of occupancy as the specification words it: the filename is a
\* non-empty string, is not "(empty)", and does not start with "~".
OccupiedAsSpecified(slot) ==
    /\ IsString(slot.filename)
    /\ Len(slot.filename.s) > 0
    /\ slot.filename # EmptyLabel
    /\ ~StartsWith(slot.filename, "~")

\* the number of occupied slots over all slots of all categories of a snapshot
OccupiedCount(data) ==
    Cardinality({p \in AllSlots(data) : OccupiedAsSpecified(data.sampleData[p[1]][p[2]])})

RECURSIVE SizeOfSlots(_)
SizeOfSlots(slots) ==
    IF slots = <<>> THEN 0 ELSE Head(slots).filesize + SizeOfSlots(Tail(slots))

\* the sum of the file sizes of a snapshot
RECURSIVE SizeOfCategories(_)
SizeOfCategories(sampleData) ==
    IF sampleData = <<>> THEN 0
    ELSE SizeOfSlots(Head(sampleData)) + SizeOfCategories(Tail(sampleData))

\* the occupancy counter of the page's script
SampleCounter == IF page = "configeditor" THEN opzNumSamples ELSE numSamples

\* every category of the snapshot has its container on the page
AllOnPage(data) == \A c \in 1..Len(data.categories) : data.categories[c] \in Containers

(* C3, as stated: a render counts a slot as an occupied sample iff its       *)
(* filename is a non-empty string other than "(empty)" that does not start   *)
(* with "~".  So after a completed render of a snapshot whose categories are *)
(* all on the page, the counter is the number of such slots.                 *)
C3_CountedIffNonEmptyName ==
    (rendered.status = "complete" /\ AllOnPage(rendered.data)) =>
        SampleCounter = OccupiedCount(rendered.data)

(* C4, as stated: after every completed render the occupancy counter is the  *)
(* number of occupied slots over all slots of all categories of the snapshot *)
(* just rendered, and the storage-used value is the one of that snapshot.    *)
C4_CountersFromSnapshotAlone ==
    rendered.status = "complete" =>
        /\ SampleCounter = OccupiedCount(rendered.data)
        /\ IF page = "configeditor"
           THEN opzStorageUsed = (IF rendered.data.storage.present
                                  THEN rendered.data.storage.used ELSE 0)
           ELSE storageUsed = SizeOfCategories(rendered.data.sampleData)

\* the poll saw "empty" on every attempt but the latest, and a value on that
EmptyThenValue ==
    /\ poll.seen # <<>>
    /\ poll.seen[Len(poll.seen)] = "value"
    /\ \A j \in 1..(Len(poll.seen) - 1) : poll.seen[j] = "empty"

(* C5: when the poll of samplemanager.js sees an empty mount path on its     *)
(* first k attempts (k < retries) and a value on attempt k+1, it calls       *)
(* fetchOpzSamples exactly once, after exactly k delays have elapsed, and    *)
(* issues no query after that one: it awaits the render and returns.         *)
C5_OneRenderAfterKthDelay ==
    (page = "samplemanager" /\ EmptyThenValue) =>
        /\ Len(poll.seen) <= poll.retries
        /\ poll.loads = 1
        /\ poll.slept = Len(poll.seen) - 1 /\ poll.delays = poll.slept
        /\ poll.queries = Len(poll.seen)
        /\ poll.pc \in {"load", "done"} /\ ~poll.warned
        /\ tasks \sqsubseteq SetToBag({Refreshing(NewTask("load", "opz"))})
        /\ poll.pc = "done" => tasks = EmptyBag

\* C5 witness: three empty answers, then a value; the one render has completed
\* and the poll has returned
C5_ValueAfterThreeEmpty ==
    /\ page = "samplemanager"
    /\ poll.seen = <<"empty", "empty", "empty", "value">>
    /\ poll.pc = "done" /\ rendered.status = "complete"

\* no attempt of the poll saw a value
NeverSeen == \A j \in 1..Len(poll.seen) : poll.seen[j] # "value"

\* At every moment of a poll: the queries issued are the answered ones and
\* the one in flight, never more than `retries`; an attempt that failed is
\* an attempt like an empty one; and a poll that returned without ever
\* seeing a value issued exactly `retries` queries, called no loader, warned,
\* and left the page as it was loaded.
C6_Bound ==
    /\ poll.queries <= poll.retries
    /\ poll.queries = Len(poll.seen) + (IF poll.pc = "query" THEN 1 ELSE 0)
    /\ (NeverSeen /\ poll.pc # "start") =>
            /\ poll.loads = 0
            /\ poll.i = poll.delays
            /\ poll.pc = "done" <=> poll.delays = poll.retries
    /\ (NeverSeen /\ poll.pc = "done") =>
            /\ poll.queries = poll.retries /\ poll.warned
            /\ poll.loads = 0 /\ tasks = EmptyBag
            /\ rendered.status = "none"
            /\ \A c \in Containers : view[c] = <<>>

(* C6: pollForMount(retries, delay) of either script returns, having issued  *)
(* at most `retries` queries; a failed attempt counts as one attempt and the *)
(* loop goes on; when no attempt saw a value it issued exactly `retries`     *)
(* queries, triggered no render and left the view unpopulated.               *)
C6_PollTerminatesWithinRetries == [](C6_Bound) /\ <>(poll.pc = "done")

\* C6 witness: a poll of the largest budget is exhausted by failed and empty attempts
C6_ExhaustedByFailures ==
    /\ poll.pc = "done" /\ poll.warned
    /\ poll.retries = MaxRetries
    /\ poll.seen[1] = "fail" /\ poll.seen[MaxRetries] = "empty"

(* C7: a drop of an internal move payload on the OP-Z slot it was dragged    *)
(* from issues no request and triggers no refresh: both drop handlers        *)
(* return at once.                                                           *)
C7_DropOnSourceIsNoOp ==
    (last.started /\ last.gesture = "slotdrop" /\ last.files = 0 /\ last.hasText /\ last.same) =>
        /\ last.moves = 0 /\ last.uploads = 0
        /\ last.task.calls = 0 /\ last.task.refreshes = 0
        /\ last.task.pc = "done" /\ last.returned /\ ~last.rendered

\* C7 witness: a payload with a path was dropped on its own slot
C7_DroppedOnOwnSlot ==
    /\ last.started /\ last.gesture = "slotdrop"
    /\ last.files = 0 /\ last.hasPath /\ last.same

(* C8: a drop on an OP-Z slot that carries at least one native file issues   *)
(* no move-sample call, whatever its text payload, and exactly one           *)
(* upload-sample call, which names that slot's category and index.           *)
C8_FilesTakePriority ==
    (last.started /\ last.gesture = "slotdrop" /\ last.files >= 1) =>
        /\ last.moves = 0 /\ last.uploads = 1
        /\ last.task.calls = 1 /\ last.task.op = "/upload-sample"
        /\ last.to = Target(last.category, last.slot)

\* C8 witness: several files dropped together with a move payload from another slot
C8_FilesWithMovePayload ==
    /\ last.started /\ last.gesture = "slotdrop"
    /\ last.files = MaxFiles /\ last.hasPath /\ ~last.same
    /\ last.uploads = 1

DeleteGestures == {"delete", "deletefile", "deletefolder"}

(* C9: a deletion (of a sample of either device, of an OP-1 subdirectory)    *)
(* issues its DELETE call only after confirm() was shown and accepted; a     *)
(* step in which the confirmation is cancelled issues no call, starts no     *)
(* refresh, suspends no handler, and leaves the rendered views, the counters *)
(* and the displays unchanged.                                               *)
C9_DeleteAsksFirst ==
    [][ /\ (last'.started /\ last'.gesture \in DeleteGestures /\ last'.deletes > 0) =>
                last'.asked /\ last'.confirmed /\ last'.deletes = 1
        /\ (last'.started /\ last'.gesture \in DeleteGestures /\ last'.asked /\ ~last'.confirmed) =>
                /\ last'.deletes = 0
                /\ last'.task.calls = 0 /\ last'.task.refreshes = 0
                /\ last'.task.pc = "done"
                /\ UNCHANGED <<dom, op1Data, op1View, rendered, tasks>>
      ]_vars

\* C9 witness: the confirmation of deleting an OP-1 subdirectory was cancelled
C9_FolderDeleteCancelled ==
    /\ last.started /\ last.gesture = "deletefolder"
    /\ last.asked /\ ~last.confirmed

(* C10, as stated: a confirmed sample deletion whose call succeeded calls    *)
(* the refresh exactly once; one whose call failed alerts the user and calls *)
(* no refresh.                                                               *)
C10_DeleteRefreshesOnSuccess ==
    /\ (last.task.op = "/delete-sample" /\ last.task.result = "ok") =>
            last.task.refreshes = 1 /\ last.task.alerts = 0
    /\ (last.task.op = "/delete-sample" /\ last.task.result \in Failures) =>
            last.task.refreshes = 0 /\ last.task.alerts = 1

\* what a render of configeditor.js rebuilds or recomputes for either device
deviceView == <<view, display, opzNumSamples, opzStorageUsed, OPZ_TOTAL_STORAGE, op1View>>

\* this step is fetchOpzSamples / fetchOp1Samples of configeditor.js receiving a
\* body whose validation_error is set
InvalidOpzBody == last'.rendered /\ last'.task.dev = "opz" /\ rendered'.status = "invalid"
InvalidOp1Body == last'.rendered /\ last'.task.dev = "op1" /\ op1Data'.validation_error

(* C11: When configeditor.js receives a snapshot that carries a              *)
(* validation_error, it shows the error panel, hides the device's storage    *)
(* info and file list, and returns before it rebuilds any slot or folder     *)
(* element or touches a counter or the storage display.                      *)
C11_InvalidSnapshotHidesView ==
    [][ page = "configeditor" =>
          /\ InvalidOpzBody =>
                panel'.error /\ panel'.opzHidden /\ UNCHANGED deviceView
          /\ InvalidOp1Body =>
                panel'.error /\ panel'.op1Hidden /\ UNCHANGED deviceView ]_vars

\* an invalid body arrived while the OP-Z view showed counted samples
C11_InvalidAfterPopulated ==
    /\ page = "configeditor" /\ last.rendered /\ last.task.dev = "opz"
    /\ rendered.status = "invalid"
    /\ opzNumSamples > 0 /\ \E c \in Containers : view[c] # <<>>
    /\ panel.error /\ panel.opzHidden

\* this step ended a refresh whose render ran to completion
CompletedRender ==
    /\ last'.rendered
    /\ \/ last'.task.dev = "opz" /\ rendered'.status = "complete"
       \/ last'.task.dev = "op1" /\ ~op1Data'.validation_error /\ ~Op1RenderThrows(op1Data')

(* C12: A refresh that fails -- the fetch fails, or the body is malformed    *)
(* and the render throws -- leaves the rendered view and the counters        *)
(* exactly as the last completed render left them: no partially rebuilt      *)
(* view is ever observable.                                                  *)
C12_FailedRefreshLeavesLastRender ==
    [][ ~CompletedRender => UNCHANGED <<deviceView, numSamples, storageUsed>> ]_vars

\* the storage object that the display on the page was computed from
Shown == rendered.data.storage
DisplayUpdated == page = "configeditor" /\ rendered.status = "complete" /\ display.bar # {}

(* C13: For integers used and total with total > 0, updateStorageDisplay of  *)
(* configeditor.js shows used/total*100 rounded to one decimal, and gives    *)
(* the bar exactly one of the three classes: storage-high iff that percent   *)
(* is at least 85, storage-medium iff it is at least 60 and below 85,        *)
(* storage-low otherwise.                                                    *)
C13_PercentAndClass ==
    (DisplayUpdated /\ Shown.total > 0) =>
        \A b \in display.bar :
            /\ b.percent.kind = "num"
            /\ 2 * Abs(b.percent.tenths * Shown.total - 1000 * Shown.used) <= Shown.total
            /\ "storage-high" \in b.classes <=> b.percent.tenths >= 850
            /\ "storage-medium" \in b.classes <=>
                    (600 <= b.percent.tenths /\ b.percent.tenths < 850)
            /\ "storage-low" \in b.classes <=> b.percent.tenths < 600
            /\ Cardinality(b.classes \cap StorageClasses) = 1

\* 3 of 5 KB used: exactly 60.0 percent, shown as medium
C13_SixtyIsMedium ==
    /\ DisplayUpdated /\ Shown = Storage(3, 5)
    /\ display.bar = {[percent |-> Num(600), classes |-> {"storage-medium"}]}

(* C14: When total is 0, updateStorageDisplay guards the division and shows  *)
(* 0 percent with the class storage-low, whatever `used` is.                 *)
C14_ZeroTotalIsZeroPercent ==
    (DisplayUpdated /\ Shown.total = 0) =>
        display.bar = {[percent |-> Num(0), classes |-> {"storage-low"}]}

\* fetchOp1Samples has just rendered the sections of op1Data
Op1Rendered ==
    /\ page = "configeditor" /\ last.rendered /\ last.task.dev = "op1"
    /\ ~op1Data.validation_error

Names(folders) == [j \in DOMAIN folders |-> folders[j].name]

\* `shown` lists the names of `given`, those other than "user" in
\* lexicographic order and "user" after them
UserLast(shown, given) ==
    /\ Len(shown) = Len(given)
    /\ {shown[j] : j \in DOMAIN shown} = {given[j] : j \in DOMAIN given}
    /\ \A i, j \in DOMAIN shown :
          i < j => /\ shown[i] # "user"
                   /\ shown[j] # "user" => LexRank[shown[i]] < LexRank[shown[j]]

(* C15: renderOp1Section renders the subdirectories of a section with the    *)
(* names other than "user" in lexicographic order and "user" last, in        *)
(* whatever order the backend lists them.                                    *)
C15_UserSortsLast ==
    Op1Rendered =>
        \A sec \in Sections : UserLast(Names(op1View[sec]), Names(op1Data[sec]))

\* the backend listed user, zeta, alpha; the page shows alpha, zeta, user
C15_UserZetaAlpha ==
    /\ Op1Rendered
    /\ Names(op1Data.drum) = <<"user", "zeta", "alpha">>
    /\ Names(op1View.drum) = <<"alpha", "zeta", "user">>

\* switchDevice has been called at least once: initDeviceTabs is past its await
SwitchDeviceCalled == page = "configeditor" /\ InitTabs \notin BagToSet(tasks)

(* C16: After any sequence of switchDevice calls, overlapping ones too,      *)
(* exactly one of the two device containers is visible, and it is the        *)
(* container of currentDevice.                                               *)
C16_OneContainerVisible ==
    SwitchDeviceCalled =>
        /\ panel.opzContainerHidden # panel.op1ContainerHidden
        /\ ~panel.opzContainerHidden <=> currentDevice = "opz"
        /\ ~panel.op1ContainerHidden <=> currentDevice = "op1"

\* switchDevice('op1') was called while switchDevice('opz') still awaits its fetch
C16_OverlappingSwitches ==
    /\ SwitchDeviceCalled
    /\ last.started /\ last.gesture = "switch" /\ last.task.dev = "op1"
    /\ Refreshing(NewTask("switch", "opz")) \in BagToSet(tasks)
    /\ currentDevice = "op1" /\ panel.opzContainerHidden /\ ~panel.op1ContainerHidden

MutatingCalls == {"/move-sample", "/upload-sample", "/delete-sample", "/delete-op1-subdirectory"}

\* a run has just returned whose mutating request failed
CallFailed ==
    /\ last.returned /\ last.task.op \in MutatingCalls
    /\ last.task.result \notin {"", "ok"}

(* C17: Every mutating call that ends in a transport failure or a non-2xx    *)
(* answer produces an alert; the alert shows the `error` text of the         *)
(* response body where the body supplies one, and a generic text otherwise.  *)
C17_FailureAlertsWithBodyError ==
    CallFailed =>
        /\ last.task.alerts = 1
        /\ last.task.said = (IF last.task.result = "error" THEN "body" ELSE "generic")

\* getFilesFromDirectory has just resolved, for a dropped directory without files
EmptyFolderRead == last.gesture = "readentries" /\ last.files = 0

(* C18: A directory that contains no files, dropped on an OP-1 section, is   *)
(* rejected with an alert: the listener returns without calling              *)
(* /upload-op1-folder and without refreshing the view.                       *)
C18_EmptyFolderRejected ==
    EmptyFolderRead =>
        /\ last.returned /\ last.task.pc = "done"
        /\ last.task.alerts = 1
        /\ last.task.calls = 0 /\ last.task.refreshes = 0
        /\ \A t \in BagToSet(tasks) : t.op # "/upload-op1-folder" /\ t.pc # "refresh"

\* the empty directory was dropped on the drum section and its listener alerted
C18_EmptyFolderAlerted ==
    /\ EmptyFolderRead /\ last.task.kind = "sectiondrop"
    /\ last.returned /\ last.task.alerts = 1 /\ last.task.said = "generic"

\* an event on the element of a folder named "user": a click on its header or
\* on one of its buttons, or a drop of files on it
OnUserFolder == last.started /\ last.folder = "user"

(* C19: The read-only subdirectory "user" offers no way to change it: no     *)
(* click on its header or its files and no drop of files on its element      *)
(* issues a rename, delete-folder, delete-sample or upload request.          *)
C19_UserFolderIsReadOnly ==
    OnUserFolder =>
        /\ last.task.pc = "done" /\ last.task.calls = 0
        /\ last.uploads = 0 /\ last.deletes = 0
        /\ tasks = EmptyBag

\* files were dropped on the "user" folder of a section
C19_FilesDroppedOnUser ==
    /\ OnUserFolder /\ last.gesture = "subdirdrop" /\ last.files > 0
    /\ tasks = EmptyBag

\* the runs of gesture handlers: the suspended ones and the one that took the last step
GestureRuns == {t \in BagToSet(tasks) \cup {last.task} : t.kind \in {"drop", "delete"}}

(* C20: Within one gesture the refresh is issued only after the gesture's    *)
(* mutating request has completed: a handler that still awaits its request   *)
(* has not called the device's fetch, and one that has called it has the     *)
(* answer of its request.                                                    *)
C20_RefreshAfterCallCompleted ==
    \A t \in GestureRuns :
        /\ t.pc = "call" => t.refreshes = 0
        /\ t.refreshes > 0 => (t.calls > 0 /\ t.result # "")

\* a move handler awaits the refresh that it called after its request succeeded
C20_MoveThenRefresh ==
    \E t \in BagToSet(tasks) :
        /\ t.kind = "drop" /\ t.op = "/move-sample" /\ t.pc = "refresh"
        /\ t.result = "ok" /\ t.calls = 1 /\ t.refreshes = 1

\* the samples that the slot elements of the page show
SamplesShown == Cardinality({i \in DOMAIN view["c1"] : view["c1"][i].path # ""})

\* a refresh of the OP-Z view has just rendered the answer to its GET
AnswerRendered ==
    last.rendered /\ last.task.dev = "opz" /\ last.task.seen # NotSeen

(* C21: Overlapping gestures are not coordinated.  Every answer to a refresh *)
(* is rendered when it arrives, with no check of its age: the page then      *)
(* shows the backend state that this answer carries, also when the backend   *)
(* has moved on and a newer state was on the page before.                    *)
C21_ArrivalOrderWins ==
    AnswerRendered =>
        /\ rendered.data = BackendBody(last.task.seen)
        /\ SamplesShown = last.task.seen
        /\ opzNumSamples = last.task.seen

\* all requests are over; the refresh of a gesture whose own request succeeded was
\* rendered last, and it shows a state older than the backend's
C21_StaleViewAtRest ==
    /\ AnswerRendered /\ tasks = EmptyBag
    /\ last.task.kind = "drop" /\ last.task.result = "ok"
    /\ last.task.seen < backend.version
    /\ SamplesShown < backend.version

-----------------------------------------------------------------------------
(* C22: a switch of the device sets currentDevice, the active tab and the    *)
(* visibility of the two containers in the step that starts the device's     *)
(* fetch; the selection is posted to /set-config-setting only after that      *)
(* fetch has returned, rendered or not, and once per switch; a POST that      *)
(* fails alerts nobody and leaves currentDevice and the containers alone.     *)
SwitchRuns == {t \in BagToSet(tasks) \cup {last.task} : t.kind = "switch"}

C22_SwitchStepsInOrder ==
    /\ (last.started /\ last.gesture = "switch") =>
            /\ currentDevice = last.task.dev
            /\ panel.activeTab = last.task.dev
            /\ panel.opzContainerHidden = (last.task.dev # "opz")
            /\ panel.op1ContainerHidden = (last.task.dev # "op1")
            /\ last.task.pc = "refresh"
    /\ \A t \in SwitchRuns :
            /\ t.refreshes = 1 /\ t.alerts = 0
            /\ t.pc \in {"refresh", "save", "done"}
            /\ t.calls = (IF t.pc = "refresh" THEN 0 ELSE 1)

C22_PersistFailureIsSilent ==
    [][\A t \in BagToSet(tasks) :
          (t.pc = "save" /\ SaveResponse(t)) =>
              /\ currentDevice' = currentDevice /\ panel' = panel
              /\ last'.task.alerts = 0 /\ last'.task.calls = 1]_vars

C22_SwitchThenPersist == []C22_SwitchStepsInOrder /\ C22_PersistFailureIsSilent

C22_PersistFailedAfterFailedFetch ==
    /\ last.returned /\ last.task.kind = "switch" /\ last.task.pc = "done"
    /\ last.task.result = "transport"
    /\ rendered.status = "none" /\ op1Data = Op1Null
    /\ currentDevice = last.task.dev /\ panel.activeTab = last.task.dev
    /\ backend.selected # currentDevice

-----------------------------------------------------------------------------
(* C30: once no call of the page is outstanding, the device saved in the     *)
(* backend's SELECTED_DEVICE is currentDevice; here for the case that the     *)
(* switch that returned last had its POST answered with success.              *)
C30_PersistedIsCurrent ==
    (/\ tasks = EmptyBag
     /\ last.returned /\ last.task.kind = "switch" /\ last.task.result = "ok")
        => backend.selected = currentDevice

-----------------------------------------------------------------------------
(* C23: a render of the slots that ran to its end has called                 *)
(* updateStorageDisplay exactly once, after the last slot, so that the        *)
(* display shows the count of the whole snapshot.                             *)
C23_OneDisplayUpdatePerRender ==
    (last.rendered /\ last.task.dev = "opz" /\ rendered.status = "complete") =>
        rendered.updates = 1

-----------------------------------------------------------------------------
(* C24: a render that ran to its end leaves, in the container of every       *)
(* category of its snapshot, exactly one slot element per slot of that        *)
(* category, in the snapshot's order and carrying the category and the        *)
(* slot's index, whatever the container held before (the heading is kept      *)
(* ahead of them); and a render of the body that the render before it         *)
(* rendered changes neither the view nor the counters nor the display.        *)
SlotsOf(data, catIndex) ==
    [i \in 1..Len(data.sampleData[catIndex]) |->
        Element(data.categories[catIndex], i - 1, data.sampleData[catIndex][i])]

C24_FullReplacement ==
    (last.rendered /\ last.task.dev = "opz" /\ rendered.status = "complete") =>
        \A catIndex \in 1..Len(rendered.data.categories) :
            rendered.data.categories[catIndex] \in Containers =>
                view[rendered.data.categories[catIndex]] = SlotsOf(rendered.data, catIndex)

C24_SecondRenderChangesNothing ==
    [][last'.again =>
          /\ view' = view /\ display' = display
          /\ numSamples' = numSamples /\ storageUsed' = storageUsed
          /\ opzNumSamples' = opzNumSamples /\ opzStorageUsed' = opzStorageUsed
          /\ OPZ_TOTAL_STORAGE' = OPZ_TOTAL_STORAGE]_vars

C24_IdempotentReplacement == []C24_FullReplacement /\ C24_SecondRenderChangesNothing

C24_SameSnapshotTwice ==
    /\ last.again /\ rendered.data = SnapNames
    /\ view["c1"] = SlotsOf(SnapNames, 1) /\ view["c2"] = SlotsOf(SnapNames, 2)

-----------------------------------------------------------------------------
(* C25: on every drop target - a slot, an OP-1 folder, an OP-1 section - a   *)
(* dragleave whose pointer went to an element inside the target leaves the    *)
(* target with its hover class; only a pointer that left the target's         *)
(* subtree clears it.                                                         *)
C25_LeaveToChildKeepsHover ==
    [][(/\ last'.gesture = "dragleave" /\ last'.inside
        /\ last'.over \in panel.hover)
            => last'.over \in panel'.hover]_vars

-----------------------------------------------------------------------------
(* C26: a dragstart on a slot starts no request; and when the drag of a slot *)
(* that has no path is dropped on a slot, whichever, the handlers issue no    *)
(* move-sample call (nor any other) and start no refresh.                     *)
PathlessDrop ==
    /\ last.started /\ last.gesture = "slotdrop"
    /\ last.files = 0 /\ last.hasText /\ ~last.hasPath

C26_PathlessDropIsInert ==
    PathlessDrop =>
        /\ last.moves = 0 /\ last.uploads = 0
        /\ last.task.pc = "done" /\ last.task.calls = 0 /\ last.task.refreshes = 0

C26_DragStartCallsNothing ==
    [][\A c \in Containers : \A i \in DOMAIN view[c] :
          DragStart(c, i) => (tasks' = tasks /\ ~last'.started /\ last'.task.calls = 0)]_vars

C26_EmptySlotDragIsInert == []C26_PathlessDropIsInert /\ C26_DragStartCallsNothing

C26_EmptySlotDroppedElsewhere ==
    /\ PathlessDrop /\ ~last.same
    /\ dataTransfer = NoDrag /\ tasks = EmptyBag

-----------------------------------------------------------------------------
(* C27: a drop of n >= 1 files on a writable OP-1 folder issues exactly n    *)
(* upload-sample calls, one at a time, each after the one before it was       *)
(* answered; an upload that fails alerts and the loop goes on with the next   *)
(* file; and after the last attempt, failed or not, the view is refreshed     *)
(* once.  (files counts the files still to upload, so calls + files is n.)    *)
SubdirRuns == {t \in BagToSet(tasks) \cup {last.task} : t.kind = "subdirdrop" /\ t.calls > 0}

C27_RefreshOnceAfterLastUpload ==
    /\ (last.started /\ last.gesture = "subdirdrop" /\ last.files >= 1
            /\ ~op1View[last.category][last.slot].readOnly) =>
            /\ last.task.pc = "call" /\ last.task.calls = 1
            /\ last.task.files = last.files - 1
    /\ \A t \in SubdirRuns :
            /\ t.pc \in {"call", "refresh", "done"}
            /\ t.pc = "call" => (t.refreshes = 0 /\ t.alerts < t.calls)
            /\ t.pc # "call" => (t.refreshes = 1 /\ t.files = 0 /\ t.alerts <= t.calls)

C27_UploadsOneByOne ==
    [][\A t \in BagToSet(tasks) :
          (t.kind = "subdirdrop" /\ t.pc = "call" /\ SubdirUploadResponse(t)) =>
              /\ last'.task.calls + last'.task.files = t.calls + t.files
              /\ last'.task.calls = t.calls + (IF t.files > 0 THEN 1 ELSE 0)
              /\ last'.task.pc = (IF t.files > 0 THEN "call" ELSE "refresh")
              /\ last'.task.alerts =
                    t.alerts + (IF last'.task.result = "ok" THEN 0 ELSE 1)]_vars

C27_SequentialUploadsThenRefresh == []C27_RefreshOnceAfterLastUpload /\ C27_UploadsOneByOne

C27_FailedUploadThenRest ==
    /\ last.returned /\ last.task.kind = "subdirdrop" /\ last.task.pc = "done"
    /\ last.task.calls = MaxFiles /\ last.task.alerts = 1 /\ last.task.result = "ok"
    /\ last.task.refreshes = 1 /\ last.rendered

-----------------------------------------------------------------------------
(* C28: creating or renaming an OP-1 folder issues no request and no refresh *)
(* when the prompt was cancelled or left empty, and renaming none either      *)
(* when the name entered is the current one; otherwise it issues exactly one  *)
(* request, and refreshes the view (once) only if that request succeeded.     *)
NamingRuns == {t \in BagToSet(tasks) \cup {last.task} : t.kind \in {"create", "rename"}}

NoNameGiven ==
    \/ last.answer \in {"cancel", "empty"}
    \/ last.gesture = "rename" /\ last.answer = "same"

C28_OneCallRefreshOnSuccess ==
    /\ (last.started /\ last.gesture \in {"create", "rename"}) =>
            IF NoNameGiven
            THEN /\ last.task.pc = "done" /\ last.task.calls = 0
                 /\ last.task.refreshes = 0 /\ last.task.alerts = 0
            ELSE /\ last.task.pc = "call" /\ last.task.calls = 1
                 /\ last.task.refreshes = 0
                 /\ last.task.op = (IF last.gesture = "create"
                                    THEN "/create-op1-subdirectory"
                                    ELSE "/rename-op1-subdirectory")
    /\ \A t \in NamingRuns :
            /\ t.calls <= 1
            /\ t.pc = "call" => t.refreshes = 0
            /\ t.pc = "refresh" => (t.result = "ok" /\ t.refreshes = 1)
            /\ (t.pc = "done" /\ t.calls = 1) =>
                    /\ t.refreshes = (IF t.result = "ok" THEN 1 ELSE 0)
                    /\ t.alerts = (IF t.result = "ok" THEN 0 ELSE 1)

C28_CreateFailedNoRefresh ==
    /\ last.returned /\ last.task.kind = "create" /\ last.task.pc = "done"
    /\ last.task.calls = 1 /\ last.task.result = "error"
    /\ last.task.refreshes = 0 /\ last.task.alerts = 1 /\ ~last.rendered

-----------------------------------------------------------------------------
(* C29: one drop of a folder on an OP-1 section issues one upload-op1-folder *)
(* call and one refresh, however often the section was rendered before: of    *)
(* the runs of the section's drop handler that are under way (the user makes  *)
(* one gesture at a time) there is never more than one.                       *)
FolderDropRuns == {t \in BagToSet(tasks) : t.kind = "sectiondrop"}

C29_OneHandlerPerFolderDrop ==
    \A t \in FolderDropRuns :
        /\ BagCardinality(tasks) = 1
        /\ t.calls <= 1 /\ t.refreshes <= 1

-----------------------------------------------------------------------------
(* C31: whenever the validation-error panel is shown, its text is the        *)
(* validation error of the device that is the current mode; here for the      *)
(* states in which no call of the page is outstanding, so that no fetch is    *)
(* still to come that could replace or hide it.                               *)
C31_PanelShowsCurrentDevice ==
    (tasks = EmptyBag /\ panel.error) => panel.errorOf = currentDevice

-----------------------------------------------------------------------------
(* C32: after every render of the slots that ran to its end, the display     *)
(* shows the sample count and the storage figures of the snapshot just        *)
(* rendered - the count the render arrived at and the storage used that it   *)
(* read or summed up - also when that snapshot has no slot at all.            *)
C32_DisplayShowsRenderedSnapshot ==
    (rendered.status = "complete" /\ rendered.data.storage.present) =>
        /\ display.samplesUsed = SampleCounter
        /\ display.storageUsed = (IF page = "configeditor" THEN rendered.data.storage.used
                                  ELSE storageUsed)

-----------------------------------------------------------------------------
(* C33: once the poll of samplemanager.js has seen the mount path, the view  *)
(* is eventually populated: a body of /read-samples gets rendered, also when  *)
(* the first fetch of it fails.                                               *)
C33_MountSeenLeadsToView ==
    (page = "samplemanager" /\ poll.pc = "load") ~> (rendered.status # "none")

-----------------------------------------------------------------------------
(* C34: the save-all handler posts the general, the midi and the dmx         *)
(* configuration in that order, each after the one before it was answered,    *)
(* and when it returns it has shown the success message if all three          *)
(* requests were answered 2xx, and the error message otherwise.               *)
SaveRuns == {t \in BagToSet(tasks) \cup {last.task} : t.kind = "saveall"}

C34_SuccessOnlyIfAllSaved ==
    \A t \in SaveRuns :
        /\ t.pc = "call" => (t.op = SaveOps[t.calls] /\ Len(t.answers) = t.calls - 1)
        /\ t.pc = "done" =>
                /\ t.alerts = 1 /\ Len(t.answers) = t.calls
                /\ t.said = (IF /\ t.calls = Len(SaveOps)
                                /\ \A k \in 1..Len(t.answers) : t.answers[k] = "ok"
                             THEN "success" ELSE "error")
====
